---- MODULE Spec2Model ----
(***************************************************************************)
(* The storage engines and the peer network of the P2P storage browser.    *)
(*                                                                         *)
(* Part U: UltimateStorageService (ultimateStorageService.ts): an          *)
(* in-memory index and blob cache over localStorage and IndexedDB.         *)
(* Part P: PersistentStorageService (persistentStorageService.ts): an      *)
(* index over IndexedDB stores keyed by record id.                         *)
(* Part S: StorageService (the engine with encryption at rest): an index   *)
(* over IndexedDB whose blobs may be AES cipher text.                      *)
(* Part N: P2PNetworkService (electron/main.js): the peer table with its   *)
(* heartbeat and the table of broadcast file records.                      *)
(* Part H: the useStorage hook, which hands the passphrase to Part S.      *)
(* Part I: ImprovedStorageService (improvedStorageService.ts): an index    *)
(* over IndexedDB (files, metadata, cache) with a localStorage backup of   *)
(* the small blobs, and replication to the connected peers.                *)
(* Part A: addFile and deleteFile of UltimateStorageService step by step,  *)
(* from await to await, with several calls in flight.                      *)
(* Part F: P2PService (p2pService.ts): the file store and the retrieval    *)
(* that asks the known peers one after another.                            *)
(*                                                                         *)
(* Conventions.  A byte buffer is [head, pad]: the bytes of head followed  *)
(* by pad zero bytes, so that a buffer of 10 MiB can be written down.      *)
(* Numbers of gigabytes are kept as bytes (usedGB * 2^30), which is exact  *)
(* in the doubles the code uses.  A localStorage item holds the parsed     *)
(* JSON value; an absent item reads as the empty collection, which is how  *)
(* every reader in the code treats it.  Blobs in localStorage are kept in  *)
(* their base64 form.                                                      *)
(***************************************************************************)
EXTENDS Integers, Sequences, FiniteSets, TLC

\* ---------------------------------------------------------------- bounds
\* How many of the sample files below the callers may ingest.
NumFiles == 2
\* How many record ids (uuidv4 calls) a run may consume.
MaxIds == 2

\* ------------------------------------------------------------- constants
GiB == 1024 * 1024 * 1024
LS_SIZE_LIMIT == 10 * 1024 * 1024
DEFAULT_TOTAL_GB == 1

\* ------------------------------------------------------ buffers and files
NoBuffer == [head |-> <<>>, pad |-> -1]
EmptyBuffer == [head |-> <<>>, pad |-> 0]

SampleBuffers ==
  << [head |-> <<0, 16, 171, 254>>, pad |-> 0],
     [head |-> <<1>>, pad |-> LS_SIZE_LIMIT - 1],
     [head |-> <<72, 105>>, pad |-> 0],
     [head |-> <<255>>, pad |-> 0] >>

SampleNames == << "Report.pdf", "big.iso", "hi.txt", "x.bin" >>

FileIds == 1 .. (IF NumFiles < Len(SampleBuffers) THEN NumFiles ELSE Len(SampleBuffers))

\* What the browser hands to addFile: File.name, File.arrayBuffer().
Files == {[name |-> SampleNames[i], buffer |-> SampleBuffers[i]] : i \in FileIds}
EmptyFile == [name |-> "empty.txt", buffer |-> EmptyBuffer]

ByteLength(buffer) == Len(buffer.head) + buffer.pad

Bytes(buffer) == buffer.head \o [i \in 1 .. buffer.pad |-> 0]

\* The peerId argument of addFile; "" is the default and means the local peer.
PeerArgs == {"", "peer-A"}
LOCAL_PEER == "peer-local"

\* ------------------------------------------------------------ conversions
RECURSIVE HexString(_)
HexString(bytes) ==
  IF bytes = <<>> THEN <<>>
  ELSE <<Head(bytes) \div 16, Head(bytes) % 16>> \o HexString(Tail(bytes))

\* The hex string of the buffer: two digits per byte.  The digits of the
\* zero padding are counted, not written.
calculateHash(buffer) ==
  [hex |-> HexString(buffer.head), zeros |-> 2 * buffer.pad]

EmptyHash == [hex |-> <<>>, zeros |-> 0]

\* btoa over a binary string (char codes 0..255); 64 stands for '='.
RECURSIVE btoa(_)
btoa(s) ==
  IF Len(s) = 0 THEN <<>>
  ELSE IF Len(s) = 1 THEN
    << s[1] \div 4, (s[1] % 4) * 16, 64, 64 >>
  ELSE IF Len(s) = 2 THEN
    << s[1] \div 4, (s[1] % 4) * 16 + (s[2] \div 16), (s[2] % 16) * 4, 64 >>
  ELSE
    << s[1] \div 4,
       (s[1] % 4) * 16 + (s[2] \div 16),
       (s[2] % 16) * 4 + (s[3] \div 64),
       s[3] % 64 >> \o btoa(SubSeq(s, 4, Len(s)))

RECURSIVE atob(_)
atob(t) ==
  IF Len(t) < 4 THEN <<>>
  ELSE
    LET b1 == t[1] * 4 + (t[2] \div 16)
        b2 == (t[2] % 16) * 16 + (t[3] \div 4)
        b3 == (t[3] % 4) * 64 + t[4]
    IN IF t[3] = 64 THEN <<b1>>
       ELSE IF t[4] = 64 THEN <<b1, b2>>
       ELSE <<b1, b2, b3>> \o atob(SubSeq(t, 5, Len(t)))

\* A decoder that keeps seven bits of each character code.
DecodeBase64_sevenBit(base64) ==
  [head |-> [i \in 1 .. Len(atob(base64)) |-> atob(base64)[i] % 128], pad |-> 0]

\* new Uint8Array(buffer) -> String.fromCharCode -> btoa
EncodeBase64(buffer) == btoa(Bytes(buffer))
\* atob -> charCodeAt per character -> bytes.buffer
DecodeBase64(base64) == [head |-> atob(base64), pad |-> 0]

\* ---------------------------------------------------------------- strings
\* The char codes of the sample names, for the string methods below.
SampleNameCodes ==
  << <<82, 101, 112, 111, 114, 116, 46, 112, 100, 102>>,
     <<98, 105, 103, 46, 105, 115, 111>>,
     <<104, 105, 46, 116, 120, 116>>,
     <<120, 46, 98, 105, 110>> >>

CharCodes(name) ==
  IF \E i \in 1 .. Len(SampleNames) : SampleNames[i] = name
  THEN SampleNameCodes[CHOOSE i \in 1 .. Len(SampleNames) : SampleNames[i] = name]
  ELSE <<101, 109, 112, 116, 121, 46, 116, 120, 116>>

\* String.prototype.toLowerCase on ASCII.
toLowerCase(s) ==
  [i \in 1 .. Len(s) |-> IF s[i] >= 65 /\ s[i] <= 90 THEN s[i] + 32 ELSE s[i]]

\* String.prototype.includes
includes(s, q) ==
  \E k \in 0 .. (Len(s) - Len(q)) : SubSeq(s, k + 1, k + Len(q)) = q

\* The characters of a hash string: its hex digits, and of its run of
\* padding zeros as many as a search string of length n can touch.
HashString(hash, n) ==
  [i \in 1 .. Len(hash.hex) |->
     IF hash.hex[i] < 10 THEN 48 + hash.hex[i] ELSE 87 + hash.hex[i]]
  \o [i \in 1 .. (IF hash.zeros < n THEN hash.zeros ELSE n) |-> 48]

\* --------------------------------------------------------- maps (JS Map)
EmptyMap == [k \in {} |-> k]
Put(m, k, v) == [x \in DOMAIN m \cup {k} |-> IF x = k THEN v ELSE m[x]]
Remove(m, k) == [x \in DOMAIN m \ {k} |-> m[x]]

\* fileIndex is a Map<string, FileMetadata>: its entries in insertion order.
MapHas(index, hash) == \E i \in 1 .. Len(index) : index[i].hash = hash
MapGet(index, hash) ==
  index[CHOOSE i \in 1 .. Len(index) : index[i].hash = hash]
\* A set that appends without looking for the key, as an array push would.
MapSet_push(index, metadata) == Append(index, metadata)

MapSet(index, metadata) ==
  IF MapHas(index, metadata.hash)
  THEN [i \in 1 .. Len(index) |->
          IF index[i].hash = metadata.hash THEN metadata ELSE index[i]]
  ELSE Append(index, metadata)
MapDelete(index, hash) == SelectSeq(index, LAMBDA m : m.hash # hash)
MapKeys(index) == {index[i].hash : i \in 1 .. Len(index)}

RECURSIVE SumSizes(_)
SumSizes(index) ==
  IF index = <<>> THEN 0 ELSE Head(index).size + SumSizes(Tail(index))

VARIABLES
  uDb,            \* this.db is set (IndexedDB was opened)
  uFileIndex,     \* this.fileIndex
  uFileData,      \* this.fileData: hash -> buffer
  uStorageQuota,  \* this.storageQuota
  uLocalStorage,  \* the three localStorage items of the service
  uIdb,           \* the object stores files, metadata, backup
  uPc,            \* where a pending initialize() stands
  uNextId,        \* the next fresh uuid
  uRet,           \* how the last completed call ended, see Ret
  uIngested       \* hash -> the bytes addFile returned for in this process, and how often

uvars == << uDb, uFileIndex, uFileData, uStorageQuota, uLocalStorage, uIdb,
            uPc, uNextId, uRet, uIngested >>

VARIABLES
  pDb,            \* this.db is set
  pFileIndex,     \* this.fileIndex
  pStorageQuota,  \* this.storageQuota
  pPeers,         \* this.peers, in insertion order
  pLocalStorage,  \* the items p2p-storage-metadata, p2p-storage-peers, local-peer-id
  pIdb,           \* the object stores files (by record id) and metadata (by hash)
  pPc,            \* "loadFileIndex" while the getAll of loadFileIndex is pending
  pUsedIds,       \* the record ids uuidv4 has handed out
  pRet            \* the last completed call: [op, hash, value]

pvars == << pDb, pFileIndex, pStorageQuota, pPeers, pLocalStorage, pIdb, pPc,
            pUsedIds, pRet >>

VARIABLES
  sDb,            \* this.db is set
  sFileIndex,     \* this.fileIndex
  sStorageQuota,  \* this.storageQuota
  sIdb,           \* the object stores files (by record id) and metadata (by hash)
  sPc,            \* where a pending initialize() stands
  sUsedIds,       \* how many record ids uuidv4 has handed out
  sRet,           \* the last completed call, see SRet
  sIngested       \* hash -> the bytes and the passphrase addFile returned it for

svars == << sDb, sFileIndex, sStorageQuota, sIdb, sPc, sUsedIds, sRet, sIngested >>

VARIABLES
  nPeers,         \* this.peers, in insertion order
  nFileMetadata,  \* this.fileMetadata
  nNow,           \* the clock (Date.now()), in milliseconds
  nNextTick,      \* when the heartbeat's interval timer fires next
  nEmitted,       \* the events emitted by the last step
  nLastMarked,    \* peer id -> when registerPeer or markPeerOnline last ran for it
  nLastEvent      \* peer id -> the last of 'peer-joined', 'peer-offline', 'peer-online' emitted for it

nvars == << nPeers, nFileMetadata, nNow, nNextTick, nEmitted, nLastMarked, nLastEvent >>

VARIABLES
  hEncryptionKey, \* useStorage: the encryptionKey state (null is NoKey)
  hCaptured       \* the encryptionKey the memoized callbacks closed over

hvars == << hEncryptionKey, hCaptured >>

VARIABLES
  iDb,            \* this.db is set
  iFileIndex,     \* this.fileIndex
  iStorageQuota,  \* this.storageQuota
  iPeers,         \* this.peers, in insertion order
  iLocalStorage,  \* the items p2p-storage-metadata, p2p-storage-files, p2p-storage-peers, local-peer-id
  iIdb,           \* the object stores files (by record id), metadata and cache (by hash)
  iPc,            \* "loadFileIndex" while the getAll of loadFileIndex is pending
  iUsedIds,       \* the record ids uuidv4 has handed out
  iRet            \* the last completed call, see IRet

ivars == << iDb, iFileIndex, iStorageQuota, iPeers, iLocalStorage, iIdb, iPc,
            iUsedIds, iRet >>

VARIABLES
  aOps,           \* the addFile and deleteFile calls suspended at an await
  aRun,           \* the calls since no call was in flight, and the state then
  aLog            \* what the calls that ran alone have reported so far

avars == << aOps, aRun, aLog >>

VARIABLES
  fPeers,         \* P2PService: the keys of this.peers, in insertion order
  fFileStore,     \* the keys of this.fileStore
  fReq,           \* the getFile in flight: its hash, its peers array, where its loop stands
  fRet,           \* how the last getFile or addFile ended
  fSilent         \* the peers that have stopped answering

fvars == << fPeers, fFileStore, fReq, fRet, fSilent >>

vars == << uvars, pvars, svars, nvars, hvars, ivars, avars, fvars >>

\* What a step of one service leaves alone: the other services.
notU == << pvars, svars, nvars, hvars, ivars, avars, fvars >>
notP == << uvars, svars, nvars, hvars, ivars, avars, fvars >>
notS == << uvars, pvars, nvars, hvars, ivars, avars, fvars >>
notN == << uvars, pvars, svars, hvars, ivars, avars, fvars >>
notI == << uvars, pvars, svars, nvars, hvars, avars, fvars >>
notA == << pvars, svars, nvars, hvars, ivars, fvars >>
notF == << uvars, pvars, svars, nvars, hvars, ivars, avars >>

\* ------------------------------------------------------------------ quota
InitialQuota ==
  [totalGB |-> DEFAULT_TOTAL_GB, usedBytes |-> 0,
   availableBytes |-> DEFAULT_TOTAL_GB * GiB, costPerMonth |-> DEFAULT_TOTAL_GB]

U_updateStorageQuota(index, quota) ==
  LET usedBytes == SumSizes(index)
      free == quota.totalGB * GiB - usedBytes
  IN [quota EXCEPT !.usedBytes = usedBytes,
                   !.availableBytes = IF free > 0 THEN free ELSE 0]

\* ----------------------------------------------------------- localStorage
U_getLocalPeerId(ls) == IF ls.peerId = "" THEN LOCAL_PEER ELSE ls.peerId

\* outcome: "ok", or "filesThrow": String.fromCharCode.apply or the setItem
\* of the blobs throws (argument limit, storage quota) after the metadata
\* item was written; the catch swallows it.
LsOutcomes == {"ok", "filesThrow"}

U_saveToLocalStorage(index, data, ls, outcome) ==
  LET small == {h \in DOMAIN data : ByteLength(data[h]) < LS_SIZE_LIMIT}
      filesData == [h \in small |-> EncodeBase64(data[h])]
  IN IF outcome = "filesThrow" \/ small = {}
     THEN [ls EXCEPT !.metadata = index]
     ELSE [ls EXCEPT !.metadata = index, !.files = filesData]

U_getFromLocalStorage(ls, hash) ==
  IF hash \in DOMAIN ls.files THEN DecodeBase64(ls.files[hash]) ELSE NoBuffer

U_deleteFromLocalStorage(ls, hash) ==
  [ls EXCEPT !.files = Remove(ls.files, hash),
             !.metadata = MapDelete(ls.metadata, hash)]

\* -------------------------------------------------------------- IndexedDB
U_saveToIndexedDB(idb, hash, buffer, metadata) ==
  [files |-> Put(idb.files, hash, buffer),
   metadata |-> Put(idb.metadata, hash, metadata),
   backup |-> Put(idb.backup, hash, [data |-> buffer, metadata |-> metadata])]

\* readOk = FALSE: the request on the files store errors, resolve(null).
U_getFromIndexedDB(db, idb, hash, readOk) ==
  IF ~db \/ ~readOk THEN NoBuffer
  ELSE IF hash \in DOMAIN idb.files THEN idb.files[hash]
  ELSE IF hash \in DOMAIN idb.backup THEN idb.backup[hash].data
  ELSE NoBuffer

\* deleteOk = FALSE: the transaction errors and is rolled back; resolve().
U_deleteFromIndexedDB(idb, hash, deleteOk) ==
  IF ~deleteOk THEN idb
  ELSE [files |-> Remove(idb.files, hash),
        metadata |-> Remove(idb.metadata, hash),
        backup |-> Remove(idb.backup, hash)]

\* How a call ended: what it returned ("throw" if it threw; for getFile the
\* tier that served the file), for initialize what its sweep recovered and
\* evicted, and for searchFiles the hashes of the records it returned.
Ret(value) == [value |-> value, recovered |-> {}, evicted |-> {}, results |-> <<>>]

Hashes == {calculateHash(f.buffer) : f \in Files}

\* Hex strings in the order of the IndexedDB keys (getAll returns the
\* records by ascending key).  The sample hashes differ in their first
\* byte, so the padding digits never decide.
RECURSIVE LexLess(_, _)
LexLess(s, t) ==
  IF t = <<>> THEN FALSE
  ELSE IF s = <<>> THEN TRUE
  ELSE IF Head(s) # Head(t) THEN Head(s) < Head(t)
  ELSE LexLess(Tail(s), Tail(t))

HashLess(a, b) == LexLess(a.hex, b.hex) \/ (a.hex = b.hex /\ a.zeros < b.zeros)

RECURSIVE SortedKeys(_)
SortedKeys(keys) ==
  IF keys = {} THEN <<>>
  ELSE LET k == CHOOSE x \in keys : \A y \in keys \ {x} : HashLess(x, y)
       IN <<k>> \o SortedKeys(keys \ {k})

\* ------------------------------------------------------------- operations
\* The capacities setStorageQuota is called with (TLC's integers end at
\* 2^31 - 1, so one gigabyte is the largest capacity it can count in bytes).
TotalGBChoices == {0, 1}

U_metadata(id, file, peerId, ls) ==
  [id |-> id,
   name |-> file.name,
   size |-> ByteLength(file.buffer),
   hash |-> calculateHash(file.buffer),
   peerId |-> IF peerId # "" THEN peerId ELSE U_getLocalPeerId(ls),
   replicatedOn |-> << IF peerId # "" THEN peerId ELSE U_getLocalPeerId(ls) >>,
   isValid |-> TRUE,
   retryCount |-> 0]

\* addFile(file, indexed, peerId).  lsOutcome and idbOk are what the two
\* durable tiers answer to the writes of this call.
U_addFile(file, peerId, lsOutcome, idbOk) ==
  /\ uPc = "idle"
  /\ IF ByteLength(file.buffer) = 0
     THEN /\ uRet' = Ret("throw")
          /\ UNCHANGED << uDb, uFileIndex, uFileData, uStorageQuota,
                          uLocalStorage, uIdb, uPc, uNextId, uIngested >>
     ELSE
       /\ uNextId <= MaxIds
       /\ LET fileHash == calculateHash(file.buffer)
              ls1 == IF peerId = ""
                     THEN [uLocalStorage EXCEPT !.peerId = U_getLocalPeerId(uLocalStorage)]
                     ELSE uLocalStorage
              metadata == U_metadata(uNextId, file, peerId, ls1)
              index1 == MapSet(uFileIndex, metadata)
              data1 == Put(uFileData, fileHash, file.buffer)
              ls2 == U_saveToLocalStorage(index1, data1, ls1, lsOutcome)
          IN /\ uNextId' = uNextId + 1
             /\ uFileIndex' = index1
             /\ uFileData' = data1
             /\ uLocalStorage' = ls2
             /\ IF uDb /\ ~idbOk
                THEN \* saveToIndexedDB rejects and addFile rethrows
                     /\ uIdb' = uIdb
                     /\ uStorageQuota' = uStorageQuota
                     /\ uIngested' = uIngested
                     /\ uRet' = Ret("throw")
                ELSE /\ uIdb' = IF uDb
                                THEN U_saveToIndexedDB(uIdb, fileHash, file.buffer, metadata)
                                ELSE uIdb
                     /\ uStorageQuota' = U_updateStorageQuota(index1, uStorageQuota)
                     /\ uIngested' = Put(uIngested, fileHash,
                          [buffer |-> file.buffer,
                           times |-> IF fileHash \in DOMAIN uIngested
                                     THEN uIngested[fileHash].times + 1 ELSE 1])
                     /\ uRet' = Ret("metadata")
             /\ UNCHANGED << uDb, uPc >>
  /\ UNCHANGED notU

\* A getFile that serves the lower tiers without filling the blob cache.
U_getFileResult_noBackfill(index, data, db, idb, ls, fileHash, readOk) ==
  IF ~MapHas(index, fileHash)
  THEN [ret |-> "null", tier |-> "none", buffer |-> NoBuffer, data |-> data]
  ELSE IF fileHash \in DOMAIN data
  THEN [ret |-> "file", tier |-> "memory", buffer |-> data[fileHash], data |-> data]
  ELSE LET fromDb == U_getFromIndexedDB(db, idb, fileHash, readOk)
           fromLs == U_getFromLocalStorage(ls, fileHash)
       IN IF fromDb # NoBuffer
          THEN [ret |-> "file", tier |-> "indexedDB", buffer |-> fromDb, data |-> data]
          ELSE IF fromLs # NoBuffer
          THEN [ret |-> "file", tier |-> "localStorage", buffer |-> fromLs, data |-> data]
          ELSE [ret |-> "throw", tier |-> "none", buffer |-> NoBuffer, data |-> data]

\* What getFile resolves with (ret: "file", "null" or "throw"), the tier
\* that served it, and the blob cache after the call.
U_getFileResult(index, data, db, idb, ls, fileHash, readOk) ==
  IF ~MapHas(index, fileHash)
  THEN [ret |-> "null", tier |-> "none", buffer |-> NoBuffer, data |-> data]
  ELSE IF fileHash \in DOMAIN data
  THEN [ret |-> "file", tier |-> "memory", buffer |-> data[fileHash], data |-> data]
  ELSE LET fromDb == U_getFromIndexedDB(db, idb, fileHash, readOk)
           fromLs == U_getFromLocalStorage(ls, fileHash)
       IN IF fromDb # NoBuffer
          THEN [ret |-> "file", tier |-> "indexedDB", buffer |-> fromDb,
                data |-> Put(data, fileHash, fromDb)]
          ELSE IF fromLs # NoBuffer
          THEN [ret |-> "file", tier |-> "localStorage", buffer |-> fromLs,
                data |-> Put(data, fileHash, fromLs)]
          ELSE [ret |-> "throw", tier |-> "none", buffer |-> NoBuffer, data |-> data]

\* A getFile that drops the record of a hash for which no tier has a blob.
U_getFile_evict(fileHash, readOk) ==
  LET r == U_getFileResult(uFileIndex, uFileData, uDb, uIdb, uLocalStorage,
                           fileHash, readOk)
  IN /\ uFileData' = r.data
     /\ uRet' = Ret(IF r.ret = "file" THEN r.tier ELSE r.ret)
     /\ uFileIndex' = IF r.ret = "throw" THEN MapDelete(uFileIndex, fileHash)
                      ELSE uFileIndex
     /\ uStorageQuota' = U_updateStorageQuota(uFileIndex', uStorageQuota)
     /\ UNCHANGED << uDb, uLocalStorage, uIdb, uPc, uNextId, uIngested >>
     /\ UNCHANGED notU

\* getFile(fileHash); it may be called while initialize() is pending.
U_getFile(fileHash, readOk) ==
  LET r == U_getFileResult(uFileIndex, uFileData, uDb, uIdb, uLocalStorage,
                           fileHash, readOk)
  IN /\ uFileData' = r.data
     /\ uRet' = Ret(IF r.ret = "file" THEN r.tier ELSE r.ret)
     /\ UNCHANGED << uDb, uFileIndex, uStorageQuota, uLocalStorage, uIdb, uPc,
                     uNextId, uIngested >>
     /\ UNCHANGED notU

U_deleteFile(fileHash, deleteOk) ==
  /\ uPc = "idle"
  /\ IF ~MapHas(uFileIndex, fileHash)
     THEN /\ uRet' = Ret("throw")
          /\ UNCHANGED << uDb, uFileIndex, uFileData, uStorageQuota,
                          uLocalStorage, uIdb, uPc, uNextId, uIngested >>
     ELSE /\ uFileIndex' = MapDelete(uFileIndex, fileHash)
          /\ uFileData' = Remove(uFileData, fileHash)
          /\ uIdb' = IF uDb THEN U_deleteFromIndexedDB(uIdb, fileHash, deleteOk)
                     ELSE uIdb
          /\ uLocalStorage' = U_deleteFromLocalStorage(uLocalStorage, fileHash)
          /\ uStorageQuota' = U_updateStorageQuota(uFileIndex', uStorageQuota)
          /\ uIngested' = Remove(uIngested, fileHash)
          /\ uRet' = Ret("true")
          /\ UNCHANGED << uDb, uPc, uNextId >>
  /\ UNCHANGED notU

\* The search strings: "REPORT", "ab", "AB", ".I", "zz" and "".
Queries ==
  { <<82, 69, 80, 79, 82, 84>>, <<97, 98>>, <<65, 66>>, <<46, 73>>,
    <<122, 122>>, <<>> }

\* A search that compares the name as it is with the query as it is.
U_searchFilesResult_caseSensitive(index, query) ==
  SelectSeq(index, LAMBDA metadata :
    \/ includes(CharCodes(metadata.name), query)
    \/ includes(HashString(metadata.hash, Len(query)), query))

U_searchFilesResult(index, query) ==
  SelectSeq(index, LAMBDA metadata :
    \/ includes(toLowerCase(CharCodes(metadata.name)), toLowerCase(query))
    \/ includes(HashString(metadata.hash, Len(query)), query))

U_searchFiles(query) ==
  LET results == U_searchFilesResult(uFileIndex, query)
  IN /\ uRet' = [Ret("results") EXCEPT
                   !.results = [i \in 1 .. Len(results) |-> results[i].hash]]
     /\ UNCHANGED << uDb, uFileIndex, uFileData, uStorageQuota, uLocalStorage,
                     uIdb, uPc, uNextId, uIngested >>
     /\ UNCHANGED notU

U_setStorageQuota(totalGB) ==
  /\ uPc = "idle"
  /\ uStorageQuota' = U_updateStorageQuota(uFileIndex,
        [uStorageQuota EXCEPT !.totalGB = totalGB, !.costPerMonth = totalGB * 1])
  /\ uRet' = Ret("void")
  /\ UNCHANGED << uDb, uFileIndex, uFileData, uLocalStorage, uIdb, uPc,
                  uNextId, uIngested >>
  /\ UNCHANGED notU

\* ------------------------------------------------------------- initialize
\* initialize() up to the end of `await this.initializeIndexedDB()`.
U_initializeIndexedDB(openOk) ==
  /\ uPc = "idle"
  /\ IF openOk
     THEN /\ uDb' = TRUE
          /\ uPc' = "loadFromLocalStorage"
          /\ uRet' = uRet
     ELSE /\ uDb' = uDb
          /\ uPc' = "idle"
          /\ uRet' = Ret("throw")
  /\ UNCHANGED << uFileIndex, uFileData, uStorageQuota, uLocalStorage, uIdb,
                  uNextId, uIngested >>
  /\ UNCHANGED notU

RECURSIVE SetAll(_, _)
SetAll(index, records) ==
  IF records = <<>> THEN index
  ELSE SetAll(MapSet(index, Head(records)), Tail(records))

RECURSIVE SetMissing(_, _)
SetMissing(index, records) ==
  IF records = <<>> THEN index
  ELSE SetMissing(IF MapHas(index, Head(records).hash) THEN index
                  ELSE Append(index, Head(records)),
                  Tail(records))

U_loadFromLocalStorage ==
  /\ uPc = "loadFromLocalStorage"
  /\ uFileIndex' = SetAll(uFileIndex, uLocalStorage.metadata)
  /\ uFileData' = [h \in DOMAIN uFileData \cup DOMAIN uLocalStorage.files |->
                     IF h \in DOMAIN uLocalStorage.files
                     THEN DecodeBase64(uLocalStorage.files[h])
                     ELSE uFileData[h]]
  /\ uPc' = "loadFromIndexedDB"
  /\ UNCHANGED << uDb, uStorageQuota, uLocalStorage, uIdb, uNextId, uRet,
                  uIngested >>
  /\ UNCHANGED notU

\* outcome: "ok"; "filesError" (the getAll on the files store errors after
\* the metadata was read); "error" (the transaction cannot be made or the
\* metadata request aborts it).  The promise resolves in each case.
LoadOutcomes == {"ok", "filesError", "error"}

U_loadFromIndexedDB(outcome) ==
  /\ uPc = "loadFromIndexedDB"
  /\ LET keys == SortedKeys(DOMAIN uIdb.metadata)
         metadataArray == [i \in 1 .. Len(keys) |-> uIdb.metadata[keys[i]]]
     IN uFileIndex' = IF outcome = "error" THEN uFileIndex
                      ELSE SetMissing(uFileIndex, metadataArray)
  /\ uFileData' = IF outcome = "ok"
                  THEN [h \in DOMAIN uFileData \cup DOMAIN uIdb.files |->
                          IF h \in DOMAIN uFileData THEN uFileData[h]
                          ELSE uIdb.files[h]]
                  ELSE uFileData
  /\ uPc' = "validateAllFiles"
  /\ UNCHANGED << uDb, uStorageQuota, uLocalStorage, uIdb, uNextId, uRet,
                  uIngested >>
  /\ UNCHANGED notU

\* A sweep whose IndexedDB branch lacks the `continue`: after a recovery
\* from IndexedDB it goes on to the localStorage lookup.
RECURSIVE U_sweep_fallThrough(_, _, _, _, _, _, _, _)
U_sweep_fallThrough(index, i, data, invalidHashes, db, idb, ls, failed) ==
  IF i > Len(index) THEN [data |-> data, invalidHashes |-> invalidHashes]
  ELSE LET hash == index[i].hash
           fromDb == U_getFromIndexedDB(db, idb, hash, hash \notin failed)
           fromLs == U_getFromLocalStorage(ls, hash)
           data1 == IF fromDb # NoBuffer THEN Put(data, hash, fromDb) ELSE data
       IN IF hash \in DOMAIN data
          THEN U_sweep_fallThrough(index, i + 1, data, invalidHashes, db, idb, ls, failed)
          ELSE IF fromLs # NoBuffer
          THEN U_sweep_fallThrough(index, i + 1, Put(data1, hash, fromLs),
                                   invalidHashes, db, idb, ls, failed)
          ELSE U_sweep_fallThrough(index, i + 1, data1, Append(invalidHashes, hash),
                                   db, idb, ls, failed)

\* The loop of validateAllFiles from entry i on: the blob cache and the
\* hashes found invalid.  failed: the hashes whose IndexedDB read errors.
RECURSIVE U_sweep(_, _, _, _, _, _, _, _)
U_sweep(index, i, data, invalidHashes, db, idb, ls, failed) ==
  IF i > Len(index) THEN [data |-> data, invalidHashes |-> invalidHashes]
  ELSE LET hash == index[i].hash
           fromDb == U_getFromIndexedDB(db, idb, hash, hash \notin failed)
           fromLs == U_getFromLocalStorage(ls, hash)
       IN IF hash \in DOMAIN data
          THEN U_sweep(index, i + 1, data, invalidHashes, db, idb, ls, failed)
          ELSE IF fromDb # NoBuffer
          THEN U_sweep(index, i + 1, Put(data, hash, fromDb), invalidHashes,
                       db, idb, ls, failed)
          ELSE IF fromLs # NoBuffer
          THEN U_sweep(index, i + 1, Put(data, hash, fromLs), invalidHashes,
                       db, idb, ls, failed)
          ELSE U_sweep(index, i + 1, data, Append(invalidHashes, hash),
                       db, idb, ls, failed)

\* An eviction that empties the index as soon as one record is invalid.
DeleteAll_clear(index, hashes) == IF hashes = <<>> THEN index ELSE <<>>

RECURSIVE DeleteAll(_, _)
DeleteAll(index, hashes) ==
  IF hashes = <<>> THEN index
  ELSE DeleteAll(MapDelete(index, Head(hashes)), Tail(hashes))

\* validateAllFiles(), the last step of initialize().
U_validateAllFiles(failed) ==
  /\ uPc = "validateAllFiles"
  /\ LET r == U_sweep(uFileIndex, 1, uFileData, <<>>, uDb, uIdb, uLocalStorage, failed)
     IN /\ uFileData' = r.data
        /\ uFileIndex' = DeleteAll(uFileIndex, r.invalidHashes)
        /\ uRet' = [value |-> "true",
                    recovered |-> DOMAIN r.data \ DOMAIN uFileData,
                    evicted |-> {r.invalidHashes[i] : i \in 1 .. Len(r.invalidHashes)},
                    results |-> <<>>]
  /\ uPc' = "idle"
  /\ UNCHANGED << uDb, uStorageQuota, uLocalStorage, uIdb, uNextId, uIngested >>
  /\ UNCHANGED notU

\* The page is reloaded: the service object is constructed anew, the
\* durable tiers keep what they hold.
U_restart ==
  /\ uDb' = FALSE
  /\ uFileIndex' = <<>>
  /\ uFileData' = EmptyMap
  /\ uStorageQuota' = InitialQuota
  /\ uPc' = "idle"
  /\ uIngested' = EmptyMap
  /\ uRet' = Ret("void")
  /\ UNCHANGED << uLocalStorage, uIdb, uNextId >>
  /\ UNCHANGED notU

UInit ==
  /\ uDb = FALSE
  /\ uFileIndex = <<>>
  /\ uFileData = EmptyMap
  /\ uStorageQuota = InitialQuota
  /\ uLocalStorage = [metadata |-> <<>>, files |-> EmptyMap, peerId |-> ""]
  /\ uIdb = [files |-> EmptyMap, metadata |-> EmptyMap, backup |-> EmptyMap]
  /\ uPc = "idle"
  /\ uNextId = 1
  /\ uRet = Ret("void")
  /\ uIngested = EmptyMap

UNext ==
  \/ \E file \in Files \cup {EmptyFile}, peerId \in PeerArgs,
        lsOutcome \in LsOutcomes, idbOk \in BOOLEAN :
       U_addFile(file, peerId, lsOutcome, idbOk)
  \/ \E fileHash \in Hashes, readOk \in BOOLEAN : U_getFile(fileHash, readOk)
  \/ \E fileHash \in Hashes, deleteOk \in BOOLEAN : U_deleteFile(fileHash, deleteOk)
  \/ \E query \in Queries : U_searchFiles(query)
  \/ \E totalGB \in TotalGBChoices : U_setStorageQuota(totalGB)
  \/ \E openOk \in BOOLEAN : U_initializeIndexedDB(openOk)
  \/ U_loadFromLocalStorage
  \/ \E outcome \in LoadOutcomes : U_loadFromIndexedDB(outcome)
  \/ \E failed \in SUBSET (MapKeys(uFileIndex) \ DOMAIN uFileData) :
       U_validateAllFiles(failed)
  \/ U_restart

\* ------------------------------------------------------------------------
\* Properties of UltimateStorageService, checked under Spec.
\* ------------------------------------------------------------------------
Occurrences(seq, x) == Cardinality({i \in 1 .. Len(seq) : seq[i] = x})
Records(index, hash) == Cardinality({i \in 1 .. Len(index) : index[i].hash = hash})

\* getFile(hash) in the current state.
U_read(hash, readOk) ==
  U_getFileResult(uFileIndex, uFileData, uDb, uIdb, uLocalStorage, hash, readOk)

\* C1.  Round trip: once addFile(b) has returned in this process, getFile of
\* its hash resolves with a file whose bytes are b, in every later state of
\* the process (whatever was added, read, deleted under another hash, or
\* re-initialized since), until deleteFile of that hash.  And whichever
\* tier serves a read, in this process or after a reload, the bytes served
\* for a hash are the bytes that hash was computed from.
C1_RoundTrip ==
  /\ \A h \in DOMAIN uIngested : \A readOk \in BOOLEAN :
       /\ U_read(h, readOk).ret = "file"
       /\ U_read(h, readOk).buffer = uIngested[h].buffer
  /\ \A h \in Hashes : \A readOk \in BOOLEAN :
       U_read(h, readOk).ret = "file"
         => calculateHash(U_read(h, readOk).buffer) = h

\* A file was ingested, written to localStorage in base64, the service was
\* initialized again (so the cache was reloaded from that base64), and
\* getFile has just served a file from the cache.
C1_Witness ==
  /\ uRet.value = "memory"
  /\ uPc = "idle"
  /\ uDb
  /\ \E h \in DOMAIN uIngested :
       /\ h \in DOMAIN uLocalStorage.files
       /\ h \in DOMAIN uIdb.files
       /\ Len(uIngested[h].buffer.head) > 3

\* C2.  Dedup: an addFile that returns, called right after another addFile
\* returned and for bytes whose hash is already in the index, leaves one
\* record under that hash, the index as long as it was, and usedGB as it was.
C2_DedupIdempotent ==
  [][\A file \in Files, peerId \in PeerArgs, lsOutcome \in LsOutcomes,
        idbOk \in BOOLEAN :
       ( /\ U_addFile(file, peerId, lsOutcome, idbOk)
         /\ uRet.value = "metadata"
         /\ uRet'.value = "metadata"
         /\ MapHas(uFileIndex, calculateHash(file.buffer)) )
       => /\ Records(uFileIndex', calculateHash(file.buffer)) = 1
          /\ Len(uFileIndex') = Len(uFileIndex)
          /\ MapGet(uFileIndex', calculateHash(file.buffer)).size
               = ByteLength(file.buffer)
          /\ uStorageQuota'.usedBytes = uStorageQuota.usedBytes]_vars

\* The same bytes were ingested twice in a row and both calls returned.
C2_Witness ==
  /\ uRet.value = "metadata"
  /\ \E h \in DOMAIN uIngested :
       /\ uIngested[h].times = 2
       /\ Records(uFileIndex, h) = 1
       /\ uStorageQuota.usedBytes = ByteLength(uIngested[h].buffer)

\* C3.  A second ingest of bytes already in the index adds the caller's peer
\* to the record's replicatedOn: afterwards it holds every peer it held
\* before and the second ingest's peer, each exactly once.
C3_SecondPeerAdded ==
  [][\A file \in Files, peerId \in PeerArgs, lsOutcome \in LsOutcomes,
        idbOk \in BOOLEAN :
       ( /\ U_addFile(file, peerId, lsOutcome, idbOk)
         /\ uRet'.value = "metadata"
         /\ MapHas(uFileIndex, calculateHash(file.buffer)) )
       => LET h == calculateHash(file.buffer)
              before == MapGet(uFileIndex, h).replicatedOn
              after == MapGet(uFileIndex', h).replicatedOn
              second == IF peerId # "" THEN peerId
                        ELSE U_getLocalPeerId(uLocalStorage)
          IN \A p \in {before[i] : i \in 1 .. Len(before)} \cup {second} :
               Occurrences(after, p) = 1]_vars

\* C4.  Quota consistency: right after initialize, addFile, deleteFile or
\* setStorageQuota has returned (and after a restart), usedGB * 2^30 is the
\* sum of the sizes of the records in the index.
C4_QuotaConsistent ==
  (uPc = "idle" /\ uRet.value \in {"metadata", "true", "void"})
    => uStorageQuota.usedBytes = SumSizes(uFileIndex)

\* C6.  Degraded durability is not failure: when the IndexedDB write of an
\* addFile of a non-empty file fails, addFile still returns the metadata,
\* and the record is in the index and getFile serves it.
C6_IdbWriteFailureNotFatal ==
  [][\A file \in Files, peerId \in PeerArgs, lsOutcome \in LsOutcomes :
       (U_addFile(file, peerId, lsOutcome, FALSE) /\ uDb)
       => /\ uRet'.value = "metadata"
          /\ MapHas(uFileIndex', calculateHash(file.buffer))
          /\ calculateHash(file.buffer) \in DOMAIN uFileData']_vars

\* The sweep's read of a durable tier finds a blob for the hash.
U_found(hash, failed) ==
  \/ uDb /\ hash \notin failed /\ hash \in DOMAIN uIdb.files \cup DOMAIN uIdb.backup
  \/ hash \in DOMAIN uLocalStorage.files

U_durableBlob(hash, failed) ==
  IF uDb /\ hash \notin failed /\ hash \in DOMAIN uIdb.files THEN uIdb.files[hash]
  ELSE IF uDb /\ hash \notin failed /\ hash \in DOMAIN uIdb.backup
    THEN uIdb.backup[hash].data
  ELSE DecodeBase64(uLocalStorage.files[hash])

\* C7.  Recovery: a record whose blob is not in the cache and which the
\* sweep finds in IndexedDB or localStorage has that blob in the cache after
\* one run of validateAllFiles, is still in the index, and has isValid = true.
C7_RecoverySuccess ==
  [][\A failed \in SUBSET Hashes :
       U_validateAllFiles(failed)
       => \A h \in MapKeys(uFileIndex) :
            (h \notin DOMAIN uFileData /\ U_found(h, failed))
            => /\ h \in DOMAIN uFileData'
               /\ uFileData'[h] = U_durableBlob(h, failed)
               /\ MapHas(uFileIndex', h)
               /\ MapGet(uFileIndex', h).isValid]_vars

\* A sweep has just recovered a blob from IndexedDB.
C7_Witness ==
  /\ uPc = "idle"
  /\ uRet.value = "true"
  /\ \E h \in uRet.recovered :
       /\ MapHas(uFileIndex, h)
       /\ h \in DOMAIN uFileData
       /\ uFileData[h] = uIdb.files[h]

maxRetries == 3

\* C8.  Retry budget: a record whose blob is in no tier survives the sweeps
\* before the one at which its retryCount reaches maxRetries; each of them
\* leaves it in the index with retryCount raised by one.
C8_RetryBudget ==
  [][\A failed \in SUBSET Hashes :
       U_validateAllFiles(failed)
       => \A h \in MapKeys(uFileIndex) :
            ( /\ h \notin DOMAIN uFileData
              /\ h \notin DOMAIN uIdb.files \cup DOMAIN uIdb.backup
              /\ h \notin DOMAIN uLocalStorage.files
              /\ MapGet(uFileIndex, h).retryCount + 1 < maxRetries )
            => /\ MapHas(uFileIndex', h)
               /\ MapGet(uFileIndex', h).retryCount
                    = MapGet(uFileIndex, h).retryCount + 1]_vars

\* C9.  Sweep isolation: whatever else the index holds and in whatever
\* order, every record whose blob is in the cache or is found in a durable
\* tier is in the index after the sweep, with its blob in the cache, and the
\* sweep evicts nothing but records whose blob was found nowhere.
C9_SweepIsolation ==
  [][\A failed \in SUBSET Hashes :
       U_validateAllFiles(failed)
       => /\ \A h \in MapKeys(uFileIndex) :
               (h \in DOMAIN uFileData \/ U_found(h, failed))
               => (MapHas(uFileIndex', h) /\ h \in DOMAIN uFileData')
          /\ \A h \in uRet'.evicted :
               h \notin DOMAIN uFileData /\ ~U_found(h, failed)]_vars

\* One sweep has recovered a record and evicted another.
C9_Witness ==
  /\ uPc = "idle"
  /\ uRet.value = "true"
  /\ uRet.recovered # {}
  /\ uRet.evicted # {}
  /\ \A h \in uRet.recovered : MapHas(uFileIndex, h) /\ h \in DOMAIN uFileData

\* C10.  Read order and backfill: getFile of an indexed hash is served by
\* the cache if the cache holds it, else by IndexedDB if the read finds it
\* there, else by localStorage; a hit below the cache leaves the served blob
\* in the cache.
C10_ReadOrderBackfill ==
  [][\A h \in Hashes, readOk \in BOOLEAN :
       (U_getFile(h, readOk) /\ MapHas(uFileIndex, h))
       => LET inDb == uDb /\ readOk /\ h \in DOMAIN uIdb.files \cup DOMAIN uIdb.backup
              inLs == h \in DOMAIN uLocalStorage.files
          IN /\ h \in DOMAIN uFileData
                  => uRet'.value = "memory" /\ uFileData' = uFileData
             /\ (h \notin DOMAIN uFileData /\ inDb)
                  => /\ uRet'.value = "indexedDB"
                     /\ h \in DOMAIN uFileData'
                     /\ uFileData'[h] = U_durableBlob(h, IF readOk THEN {} ELSE {h})
             /\ (h \notin DOMAIN uFileData /\ ~inDb /\ inLs)
                  => /\ uRet'.value = "localStorage"
                     /\ h \in DOMAIN uFileData'
                     /\ uFileData'[h] = DecodeBase64(uLocalStorage.files[h])
             /\ (h \notin DOMAIN uFileData /\ ~inDb /\ ~inLs)
                  => uRet'.value = "throw" /\ uFileData' = uFileData]_vars

\* getFile has just been served by IndexedDB and the blob is in the cache.
C10_Witness ==
  /\ uRet.value = "indexedDB"
  /\ \E h \in MapKeys(uFileIndex) :
       /\ h \in DOMAIN uFileData
       /\ h \in DOMAIN uIdb.files
       /\ uFileData[h] = uIdb.files[h]
       /\ h \notin DOMAIN uLocalStorage.files

\* C13.  Quota on delete: a deleteFile that returns true for a record of
\* size s leaves the used byte total exactly s below what it was before the
\* call, and every other record in the index with its size.
C13_QuotaOnDelete ==
  [][\A h \in Hashes, deleteOk \in BOOLEAN :
       (U_deleteFile(h, deleteOk) /\ uRet'.value = "true")
       => /\ uStorageQuota'.usedBytes
               = uStorageQuota.usedBytes - MapGet(uFileIndex, h).size
          /\ \A other \in MapKeys(uFileIndex) \ {h} :
               /\ MapHas(uFileIndex', other)
               /\ MapGet(uFileIndex', other).size = MapGet(uFileIndex, other).size]_vars

\* C15.  Every record in the index has a replicatedOn that holds the local
\* peer id (what getLocalPeerId returns), whatever peerId addFile was given.
C15_LocalPeerInReplicatedOn ==
  \A i \in 1 .. Len(uFileIndex) :
    Occurrences(uFileIndex[i].replicatedOn, U_getLocalPeerId(uLocalStorage)) >= 1

\* The characters a and b are the same letter up to case, or the same character.
SameIgnoringCase(a, b) ==
  \/ a = b
  \/ a >= 65 /\ a <= 90 /\ b = a + 32
  \/ b >= 65 /\ b <= 90 /\ a = b + 32

NameContains(name, q) ==
  \E k \in 0 .. (Len(name) - Len(q)) :
    \A i \in 1 .. Len(q) : SameIgnoringCase(name[k + i], q[i])

\* Character j of the hash string, read off the digits without writing the
\* string down.
HashCharAt(hash, j) ==
  IF j > Len(hash.hex) THEN 48
  ELSE IF hash.hex[j] < 10 THEN 48 + hash.hex[j] ELSE 87 + hash.hex[j]

\* An occurrence of q that starts in the run of zeros can be moved to the
\* start of the run, so only the offsets up to there are tried.
HashContains(hash, q) ==
  LET last == Len(hash.hex) + hash.zeros - Len(q)
  IN \E k \in 0 .. (IF last < Len(hash.hex) THEN last ELSE Len(hash.hex)) :
       \A i \in 1 .. Len(q) : HashCharAt(hash, k + i) = q[i]

\* C14.  searchFiles(q) returns, in index order, exactly the records whose
\* name contains q ignoring case or whose hash contains q (none if none
\* matches), and changes nothing of the index, the tiers and the quota.
C14_SearchExact ==
  [][\A q \in Queries :
       (uRet'.value = "results" /\ U_searchFiles(q))
       => /\ LET matching == SelectSeq(uFileIndex, LAMBDA m :
                   NameContains(CharCodes(m.name), q) \/ HashContains(m.hash, q))
             IN uRet'.results = [i \in 1 .. Len(matching) |-> matching[i].hash]
          /\ UNCHANGED << uFileIndex, uFileData, uStorageQuota, uLocalStorage,
                          uIdb >>]_vars

\* A search over an index of two records has just returned one of them.
C14_Witness ==
  /\ uRet.value = "results"
  /\ Len(uFileIndex) = 2
  /\ Len(uRet.results) = 1
  /\ MapHas(uFileIndex, uRet.results[1])

\* C30.  Record identity is stable: an addFile of bytes whose hash is in the
\* index already leaves the record under that hash with the id it had.
C30_StableRecordId ==
  [][\A file \in Files, peerId \in PeerArgs, lsOutcome \in LsOutcomes,
        idbOk \in BOOLEAN :
       (U_addFile(file, peerId, lsOutcome, idbOk)
          /\ MapHas(uFileIndex, calculateHash(file.buffer)))
       => /\ MapHas(uFileIndex', calculateHash(file.buffer))
          /\ MapGet(uFileIndex', calculateHash(file.buffer)).id
               = MapGet(uFileIndex, calculateHash(file.buffer)).id]_vars


\* C32.  Failure atomicity: an addFile that throws, whatever made it throw,
\* leaves the index, the blob cache, localStorage and the quota as they
\* were before the call.
C32_FailedIngestLeavesNothing ==
  [][\A file \in Files \cup {EmptyFile}, peerId \in PeerArgs,
        lsOutcome \in LsOutcomes, idbOk \in BOOLEAN :
       (uRet'.value = "throw" /\ U_addFile(file, peerId, lsOutcome, idbOk))
       => UNCHANGED << uFileIndex, uFileData, uLocalStorage, uStorageQuota >>]_vars

\* C37.  getFile changes nothing the engine believes it holds: whether it
\* serves the file, returns null or throws, the index, the quota and the
\* durable tiers are after the call what they were before it, and the
\* blob cache can differ only by the blob of the requested hash, and only
\* when that hash is in the index.
C37_GetFileKeepsIndex ==
  [][\A h \in Hashes, readOk \in BOOLEAN :
       ( /\ uRet'.value \in {"memory", "indexedDB", "localStorage", "null", "throw"}
         /\ U_getFile(h, readOk) )
       => /\ UNCHANGED << uFileIndex, uStorageQuota, uLocalStorage, uIdb >>
          /\ uFileData' # uFileData
               => /\ MapHas(uFileIndex, h)
                  /\ h \notin DOMAIN uFileData
                  /\ \A k \in DOMAIN uFileData : uFileData'[k] = uFileData[k]]_vars

\* getFile has just been served by IndexedDB in a page whose quota was
\* not computed yet: the record is in the index and the quota is still
\* the initial one.
C37_Witness ==
  /\ uRet.value = "indexedDB"
  /\ uStorageQuota = InitialQuota
  /\ \E h \in MapKeys(uFileIndex) : h \in DOMAIN uFileData /\ h \in DOMAIN uIdb.files
\* ========================================================================
\* Part P: PersistentStorageService
\* ========================================================================
RecordIds == 1 .. MaxIds
RemotePeers == {"peer-A"}

P_updateStorageQuota(index, quota) ==
  LET usedBytes == SumSizes(index)
      free == quota.totalGB * GiB - usedBytes
  IN [quota EXCEPT !.usedBytes = usedBytes,
                   !.availableBytes = IF free > 0 THEN free ELSE 0]

P_getLocalPeerId(ls) == IF ls.peerId = "" THEN LOCAL_PEER ELSE ls.peerId

P_getConnectedPeers(peers) == SelectSeq(peers, LAMBDA p : p.isConnected)

\* this.peers.set(peerId, info)
PeersSet(peers, info) ==
  IF \E i \in 1 .. Len(peers) : peers[i].peerId = info.peerId
  THEN [i \in 1 .. Len(peers) |->
          IF peers[i].peerId = info.peerId THEN info ELSE peers[i]]
  ELSE Append(peers, info)

\* The files store is keyed by record id, the metadata store by hash.
P_storeFileInDB(idb, fileId, fileBuffer, metadata) ==
  [files |-> Put(idb.files, fileId, [data |-> fileBuffer, metadata |-> metadata]),
   metadata |-> Put(idb.metadata, metadata.hash, metadata)]

\* files.find(f => f.metadata.hash === fileHash) over getAll(): the entry
\* with the least key among those of that hash, 0 if there is none.
P_find(files, fileHash) ==
  LET ids == {id \in DOMAIN files : files[id].metadata.hash = fileHash}
  IN IF ids = {} THEN 0
     ELSE CHOOSE id \in ids : \A other \in ids : id <= other

P_getFileFromDB(idb, fileHash) ==
  IF P_find(idb.files, fileHash) = 0 THEN NoBuffer
  ELSE idb.files[P_find(idb.files, fileHash)].data

P_storeFileInLocalStorage(ls, metadata) ==
  [ls EXCEPT !.metadata = Put(ls.metadata, metadata.hash, metadata)]

P_removeFileFromLocalStorage(ls, fileHash) ==
  [ls EXCEPT !.metadata = Remove(ls.metadata, fileHash)]

\* A loop that pushes every connected peer without looking at the list.
P_replicateFileToPeers_push(replicatedOn, connectedPeers) ==
  replicatedOn \o [i \in 1 .. Len(connectedPeers) |-> connectedPeers[i].peerId]

\* The peers the loop of replicateFileToPeers pushes onto replicatedOn.
RECURSIVE P_replicateFileToPeers(_, _)
P_replicateFileToPeers(replicatedOn, connectedPeers) ==
  IF connectedPeers = <<>> THEN replicatedOn
  ELSE P_replicateFileToPeers(
         IF \E i \in 1 .. Len(replicatedOn) :
              replicatedOn[i] = Head(connectedPeers).peerId
         THEN replicatedOn
         ELSE Append(replicatedOn, Head(connectedPeers).peerId),
         Tail(connectedPeers))

PRet(op, hash, value) == [op |-> op, hash |-> hash, value |-> value]

\* addFile has no check of the file's size: the empty file is an input too.
PFiles == Files \cup {EmptyFile}
PHashes == {calculateHash(f.buffer) : f \in PFiles}

\* addFile(file, indexed, peerId); fileId is what uuidv4() returns and
\* idbOk whether the transaction of storeFileInDB completes.
P_addFile(file, peerId, fileId, idbOk) ==
  /\ pPc = "idle"
  /\ fileId \in RecordIds \ pUsedIds
  /\ pUsedIds' = pUsedIds \cup {fileId}
  /\ LET fileHash == calculateHash(file.buffer)
         ls1 == IF peerId = ""
                THEN [pLocalStorage EXCEPT !.peerId = P_getLocalPeerId(pLocalStorage)]
                ELSE pLocalStorage
         owner == IF peerId # "" THEN peerId ELSE P_getLocalPeerId(ls1)
         metadata == [id |-> fileId,
                      name |-> file.name,
                      size |-> ByteLength(file.buffer),
                      hash |-> fileHash,
                      peerId |-> owner,
                      replicatedOn |-> << owner >>]
         replicated == [metadata EXCEPT !.replicatedOn =
                          P_replicateFileToPeers(@, P_getConnectedPeers(pPeers))]
     IN IF pDb /\ ~idbOk
        THEN /\ pLocalStorage' = ls1
             /\ pRet' = PRet("addFile", fileHash, "throw")
             /\ UNCHANGED << pFileIndex, pStorageQuota, pIdb >>
        ELSE /\ pIdb' = IF pDb THEN P_storeFileInDB(pIdb, fileId, file.buffer, metadata)
                        ELSE pIdb
             /\ pLocalStorage' = P_storeFileInLocalStorage(ls1, metadata)
             /\ pFileIndex' = MapSet(pFileIndex, replicated)
             /\ pStorageQuota' = P_updateStorageQuota(pFileIndex', pStorageQuota)
             /\ pRet' = PRet("addFile", fileHash, "metadata")
  /\ UNCHANGED << pDb, pPeers, pPc >>
  /\ UNCHANGED notP

\* What getFile resolves with.  fetchFileFromPeer returns null, so a miss
\* in IndexedDB is a miss.  readOk = FALSE: the getAll request errors.
P_getFileResult(db, idb, fileHash, readOk) ==
  IF db /\ ~readOk THEN [ret |-> "throw", buffer |-> NoBuffer]
  ELSE IF db /\ P_getFileFromDB(idb, fileHash) # NoBuffer
  THEN [ret |-> "file", buffer |-> P_getFileFromDB(idb, fileHash)]
  ELSE [ret |-> "null", buffer |-> NoBuffer]

P_getFile(fileHash, readOk) ==
  /\ pRet' = PRet("getFile", fileHash, P_getFileResult(pDb, pIdb, fileHash, readOk).ret)
  /\ UNCHANGED << pDb, pFileIndex, pStorageQuota, pPeers, pLocalStorage, pIdb,
                  pPc, pUsedIds >>
  /\ UNCHANGED notP

\* deleteFile(fileHash); txOk = FALSE: the transaction errors, nothing of
\* it is applied and the promise rejects.
P_deleteFile(fileHash, txOk) ==
  /\ pPc = "idle"
  /\ IF ~pDb
     THEN /\ pRet' = PRet("deleteFile", fileHash, "false")
          /\ UNCHANGED << pFileIndex, pStorageQuota, pLocalStorage, pIdb >>
     ELSE IF ~txOk
     THEN /\ pRet' = PRet("deleteFile", fileHash, "throw")
          /\ UNCHANGED << pFileIndex, pStorageQuota, pLocalStorage, pIdb >>
     ELSE /\ pIdb' = [files |-> Remove(pIdb.files, P_find(pIdb.files, fileHash)),
                      metadata |-> Remove(pIdb.metadata, fileHash)]
          /\ pFileIndex' = MapDelete(pFileIndex, fileHash)
          /\ pStorageQuota' = P_updateStorageQuota(pFileIndex', pStorageQuota)
          /\ pLocalStorage' = P_removeFileFromLocalStorage(pLocalStorage, fileHash)
          /\ pRet' = PRet("deleteFile", fileHash, "true")
  /\ UNCHANGED << pDb, pPeers, pPc, pUsedIds >>
  /\ UNCHANGED notP

P_setStorageQuota(totalGB) ==
  /\ pPc = "idle"
  /\ pStorageQuota' = P_updateStorageQuota(pFileIndex,
        [pStorageQuota EXCEPT !.totalGB = totalGB, !.costPerMonth = totalGB * 1])
  /\ pRet' = PRet("setStorageQuota", EmptyHash, "void")
  /\ UNCHANGED << pDb, pFileIndex, pPeers, pLocalStorage, pIdb, pPc, pUsedIds >>
  /\ UNCHANGED notP

P_registerPeer(peerId) ==
  /\ pPc = "idle"
  /\ pPeers' = PeersSet(pPeers, [peerId |-> peerId, isConnected |-> TRUE])
  /\ pLocalStorage' = [pLocalStorage EXCEPT !.peers = pPeers']
  /\ pRet' = PRet("registerPeer", EmptyHash, "void")
  /\ UNCHANGED << pDb, pFileIndex, pStorageQuota, pIdb, pPc, pUsedIds >>
  /\ UNCHANGED notP

P_disconnectPeer(peerId) ==
  /\ pPc = "idle"
  /\ IF \E i \in 1 .. Len(pPeers) : pPeers[i].peerId = peerId
     THEN /\ pPeers' = PeersSet(pPeers, [peerId |-> peerId, isConnected |-> FALSE])
          /\ pLocalStorage' = [pLocalStorage EXCEPT !.peers = pPeers']
     ELSE UNCHANGED << pPeers, pLocalStorage >>
  /\ pRet' = PRet("disconnectPeer", EmptyHash, "void")
  /\ UNCHANGED << pDb, pFileIndex, pStorageQuota, pIdb, pPc, pUsedIds >>
  /\ UNCHANGED notP

RECURSIVE PeersSetAll(_, _)
PeersSetAll(peers, infos) ==
  IF infos = <<>> THEN peers
  ELSE PeersSetAll(PeersSet(peers, Head(infos)), Tail(infos))

\* initialize() up to resolve(this.db): loadFileIndex has issued its
\* getAll, loadPeers has run.
P_initialize(openOk) ==
  /\ pPc = "idle"
  /\ IF openOk
     THEN /\ pDb' = TRUE
          /\ pPeers' = PeersSetAll(pPeers, pLocalStorage.peers)
          /\ pPc' = "loadFileIndex"
          /\ pRet' = PRet("initialize", EmptyHash, "db")
     ELSE /\ pRet' = PRet("initialize", EmptyHash, "throw")
          /\ UNCHANGED << pDb, pPeers, pPc >>
  /\ UNCHANGED << pFileIndex, pStorageQuota, pLocalStorage, pIdb, pUsedIds >>
  /\ UNCHANGED notP

\* request.onsuccess of loadFileIndex; loadOk = FALSE: the request errors,
\* for which there is no handler.
P_loadFileIndex(loadOk) ==
  /\ pPc = "loadFileIndex"
  /\ pPc' = "idle"
  /\ IF loadOk
     THEN LET keys == SortedKeys(DOMAIN pIdb.metadata)
              files == [i \in 1 .. Len(keys) |-> pIdb.metadata[keys[i]]]
          IN /\ pFileIndex' = SetAll(pFileIndex, files)
             /\ pStorageQuota' = P_updateStorageQuota(pFileIndex', pStorageQuota)
     ELSE UNCHANGED << pFileIndex, pStorageQuota >>
  /\ UNCHANGED << pDb, pPeers, pLocalStorage, pIdb, pUsedIds, pRet >>
  /\ UNCHANGED notP

\* The page is reloaded.
P_restart ==
  /\ pDb' = FALSE
  /\ pFileIndex' = <<>>
  /\ pStorageQuota' = InitialQuota
  /\ pPeers' = <<>>
  /\ pPc' = "idle"
  /\ pRet' = PRet("restart", EmptyHash, "void")
  /\ UNCHANGED << pLocalStorage, pIdb, pUsedIds >>
  /\ UNCHANGED notP

PInit ==
  /\ pDb = FALSE
  /\ pFileIndex = <<>>
  /\ pStorageQuota = InitialQuota
  /\ pPeers = <<>>
  /\ pLocalStorage = [metadata |-> EmptyMap, peers |-> <<>>, peerId |-> ""]
  /\ pIdb = [files |-> EmptyMap, metadata |-> EmptyMap]
  /\ pPc = "idle"
  /\ pUsedIds = {}
  /\ pRet = PRet("restart", EmptyHash, "void")

PNext ==
  \/ \E file \in PFiles, peerId \in PeerArgs, fileId \in RecordIds,
        idbOk \in BOOLEAN : P_addFile(file, peerId, fileId, idbOk)
  \/ \E fileHash \in PHashes, readOk \in BOOLEAN : P_getFile(fileHash, readOk)
  \/ \E fileHash \in PHashes, txOk \in BOOLEAN : P_deleteFile(fileHash, txOk)
  \/ \E totalGB \in TotalGBChoices : P_setStorageQuota(totalGB)
  \/ \E peerId \in RemotePeers : P_registerPeer(peerId)
  \/ \E peerId \in RemotePeers : P_disconnectPeer(peerId)
  \/ \E openOk \in BOOLEAN : P_initialize(openOk)
  \/ \E loadOk \in BOOLEAN : P_loadFileIndex(loadOk)
  \/ P_restart

\* C5.  Delete covers all tiers: once deleteFile(h) has returned true, the
\* index has no record for h, neither the files store nor the metadata
\* store nor localStorage holds anything for h, and getFile(h) yields no
\* content -- however often the bytes of h were ingested before.
C5_DeleteCoversAllTiers ==
  (pRet.op = "deleteFile" /\ pRet.value = "true")
    => /\ ~MapHas(pFileIndex, pRet.hash)
       /\ P_find(pIdb.files, pRet.hash) = 0
       /\ pRet.hash \notin DOMAIN pIdb.metadata
       /\ pRet.hash \notin DOMAIN pLocalStorage.metadata
       /\ \A readOk \in BOOLEAN :
            P_getFileResult(pDb, pIdb, pRet.hash, readOk).ret # "file"

\* C11.  Empty input is rejected: an addFile of a zero-length file fails,
\* and no record with the hash of the empty buffer is ever in the index.
C11_EmptyInputRejected ==
  /\ (pRet.op = "addFile" /\ pRet.hash = EmptyHash) => pRet.value = "throw"
  /\ ~MapHas(pFileIndex, EmptyHash)

\* C25.  The index alone decides which records exist: a getFile(h) that
\* returns file content was called with h in the index.
C25_IndexDecides ==
  [][\A h \in PHashes, readOk \in BOOLEAN :
       (P_getFile(h, readOk) /\ pRet'.value = "file") => MapHas(pFileIndex, h)]_vars


\* The same in PersistentStorageService: deleteFile without the database
\* handle returns false and changes nothing, addFile without it adds the
\* record to the index.
DeleteNeedsDatabasePersistent ==
  [][/\ \A h \in PHashes, txOk \in BOOLEAN :
          (pRet'.op = "deleteFile" /\ ~pDb /\ P_deleteFile(h, txOk))
          => /\ pRet'.value = "false"
             /\ UNCHANGED << pFileIndex, pStorageQuota, pLocalStorage >>
     /\ \A file \in PFiles, peerId \in PeerArgs, fileId \in RecordIds :
          (/\ pRet'.op = "addFile"
           /\ ~pDb
           /\ P_addFile(file, peerId, fileId, TRUE))
          => /\ pRet'.value = "metadata"
             /\ MapHas(pFileIndex', calculateHash(file.buffer))]_vars
\* ========================================================================
\* Part S: StorageService (the engine with encryption at rest)
\* ========================================================================
\* Files of a few bytes: the cipher text of each is written down in full.
SFiles == {[name |-> SampleNames[i], buffer |-> SampleBuffers[i]] : i \in {1, 3}}

\* The encryptionKey argument: "pw", "q", and none ("" counts as none).
NoKey == <<>>
Passphrases == { <<112, 119>>, <<113>> }
EncryptionKeys == Passphrases \cup {NoKey}

\* The salts CryptoJS may draw for one encryption (8 random bytes).
Salts == { <<1, 2, 3, 4, 5, 6, 7, 8>>, <<9, 10, 11, 12, 13, 14, 15, 16>> }

\* ------------------------------------------------------------- CryptoJS
\* The library is used through AES.encrypt(wordArray, passphrase).toString()
\* and AES.decrypt(string, passphrase).words.  The block cipher is replaced
\* by a keyed byte substitution; the salt header, the padding to blocks of
\* 16 bytes, the base64 text and what decrypt leaves in words are kept.
RECURSIVE SumCodes(_)
SumCodes(s) == IF s = <<>> THEN 0 ELSE Head(s) + SumCodes(Tail(s))

\* Key and iv are derived from the passphrase and the salt.
DeriveKey(passphrase, salt) == (SumCodes(passphrase) + SumCodes(salt)) % 256

\* pad.Pkcs7.pad: n bytes of value n up to the next block boundary, a whole
\* block when the data ends on one.
Pkcs7Pad(bytes) ==
  LET n == 16 - (Len(bytes) % 16)
  IN bytes \o [i \in 1 .. n |-> n]

\* The characters of the base64 alphabet, '=' for the padding value 64.
Base64Char(v) ==
  IF v < 26 THEN 65 + v
  ELSE IF v < 52 THEN 71 + v
  ELSE IF v < 62 THEN v - 4
  ELSE IF v = 62 THEN 43
  ELSE IF v = 63 THEN 47
  ELSE 61

Base64Value(c) ==
  IF c >= 65 /\ c <= 90 THEN c - 65
  ELSE IF c >= 97 /\ c <= 122 THEN c - 71
  ELSE IF c >= 48 /\ c <= 57 THEN c + 4
  ELSE IF c = 43 THEN 62
  ELSE IF c = 47 THEN 63
  ELSE 64

\* "Salted__"
SaltedPrefix == <<83, 97, 108, 116, 101, 100, 95, 95>>

\* AES.encrypt(...).toString(): base64 of "Salted__", the salt and the
\* cipher text, as a string of char codes.
AES_encrypt(bytes, passphrase, salt) ==
  LET key == DeriveKey(passphrase, salt)
      padded == Pkcs7Pad(bytes)
      ciphertext == [i \in 1 .. Len(padded) |-> (padded[i] + key) % 256]
      encoded == btoa(SaltedPrefix \o salt \o ciphertext)
  IN [i \in 1 .. Len(encoded) |-> Base64Char(encoded[i])]

\* AES.decrypt(string, passphrase): every block is decrypted into words;
\* unpad reads the last byte and lowers sigBytes by it, words keeps the
\* padding.  Nothing in it looks at whether the passphrase was the one used.
AES_decrypt(string, passphrase) ==
  LET raw == atob([i \in 1 .. Len(string) |-> Base64Value(string[i])])
      salt == SubSeq(raw, 9, 16)
      ciphertext == SubSeq(raw, 17, Len(raw))
      key == DeriveKey(passphrase, salt)
      words == [i \in 1 .. Len(ciphertext) |-> (ciphertext[i] + 256 - key) % 256]
  IN [words |-> words, sigBytes |-> Len(words) - words[Len(words)]]

\* new TextEncoder().encode(string): UTF-8, one byte per character below 128
RECURSIVE TextEncode(_)
TextEncode(string) ==
  IF string = <<>> THEN <<>>
  ELSE (IF Head(string) < 128 THEN << Head(string) >>
        ELSE << 192 + (Head(string) \div 64), 128 + (Head(string) % 64) >>)
       \o TextEncode(Tail(string))

\* new TextDecoder().decode(bytes)
RECURSIVE TextDecode(_)
TextDecode(bytes) ==
  IF bytes = <<>> THEN <<>>
  ELSE IF Head(bytes) < 128 \/ Len(bytes) = 1
  THEN << Head(bytes) >> \o TextDecode(Tail(bytes))
  ELSE << (Head(bytes) - 192) * 64 + (bytes[2] - 128) >>
       \o TextDecode(Tail(Tail(bytes)))

\* --------------------------------------------------------------- quota
S_InitialQuota ==
  [totalGB |-> 0, usedBytes |-> 0, availableBytes |-> 0, costPerMonth |-> 0]

S_updateStorageQuota(index, quota) ==
  LET usedBytes == SumSizes(index)
  IN [quota EXCEPT !.usedBytes = usedBytes,
                   !.availableBytes = quota.totalGB * GiB - usedBytes]

\* ----------------------------------------------------------- operations
SRet(op, value, buffer) == [op |-> op, value |-> value, buffer |-> buffer]

\* The buffer addFile hashes and stores: the bytes of the file, or with a
\* passphrase the UTF-8 bytes of the encrypted text.
S_fileBuffer(file, encryptionKey, salt) ==
  IF encryptionKey # NoKey
  THEN [head |-> TextEncode(AES_encrypt(Bytes(file.buffer), encryptionKey, salt)),
        pad |-> 0]
  ELSE file.buffer

\* addFile(file, indexed, peerId, encryptionKey); salt is what the
\* encryption draws.  The two add requests are in one transaction: when
\* the metadata store has the hash already, the second add fails and the
\* transaction is rolled back, which addFile does not wait for.
S_addFile(file, peerId, encryptionKey, salt) ==
  /\ sPc = "idle"
  /\ sUsedIds < MaxIds
  /\ sUsedIds' = sUsedIds + 1
  /\ LET fileBuffer == S_fileBuffer(file, encryptionKey, salt)
         fileHash == calculateHash(fileBuffer)
         metadata == [id |-> sUsedIds + 1,
                      name |-> file.name,
                      size |-> ByteLength(file.buffer),
                      hash |-> fileHash,
                      peerId |-> peerId,
                      isEncrypted |-> (encryptionKey # NoKey)]
     IN /\ sIdb' = IF sDb /\ fileHash \notin DOMAIN sIdb.metadata
                   THEN P_storeFileInDB(sIdb, metadata.id, fileBuffer, metadata)
                   ELSE sIdb
        /\ sFileIndex' = MapSet(sFileIndex, metadata)
        /\ sStorageQuota' = S_updateStorageQuota(sFileIndex', sStorageQuota)
        /\ sRet' = SRet("addFile", "metadata", NoBuffer)
        /\ sIngested' = {e \in sIngested : e.hash # fileHash}
                          \cup {[hash |-> fileHash, buffer |-> file.buffer,
                                 key |-> encryptionKey]}
  /\ UNCHANGED << sDb, sPc >>
  /\ UNCHANGED notS

\* What onsuccess of getFile's getAll resolves with.  With a passphrase and
\* an encrypted entry the data is replaced by the bytes of all of
\* decrypted.words (4 per word).
S_getFileResult(idb, fileHash, encryptionKey) ==
  IF P_find(idb.files, fileHash) = 0 THEN SRet("getFile", "null", NoBuffer)
  ELSE LET fileData == idb.files[P_find(idb.files, fileHash)]
       IN IF fileData.metadata.isEncrypted /\ encryptionKey # NoKey
          THEN SRet("getFile", "file",
                    [head |-> AES_decrypt(TextDecode(Bytes(fileData.data)),
                                          encryptionKey).words,
                     pad |-> 0])
          ELSE SRet("getFile", "file", fileData.data)

\* getFile(fileHash, encryptionKey); readOk = FALSE: the getAll request errors.
S_getFile(fileHash, encryptionKey, readOk) ==
  /\ sRet' = IF ~sDb THEN SRet("getFile", "null", NoBuffer)
             ELSE IF ~readOk THEN SRet("getFile", "reject", NoBuffer)
             ELSE S_getFileResult(sIdb, fileHash, encryptionKey)
  /\ UNCHANGED << sDb, sFileIndex, sStorageQuota, sIdb, sPc, sUsedIds, sIngested >>
  /\ UNCHANGED notS

\* deleteFile(fileHash); txOk = FALSE: the transaction errors and nothing
\* of it is applied.
S_deleteFile(fileHash, txOk) ==
  /\ sPc = "idle"
  /\ IF ~sDb
     THEN /\ sRet' = SRet("deleteFile", "false", NoBuffer)
          /\ UNCHANGED << sFileIndex, sStorageQuota, sIdb, sIngested >>
     ELSE IF ~txOk
     THEN /\ sRet' = SRet("deleteFile", "reject", NoBuffer)
          /\ UNCHANGED << sFileIndex, sStorageQuota, sIdb, sIngested >>
     ELSE /\ sIdb' = [files |-> IF P_find(sIdb.files, fileHash) = 0
                                THEN sIdb.files
                                ELSE Remove(sIdb.files, P_find(sIdb.files, fileHash)),
                      metadata |-> Remove(sIdb.metadata, fileHash)]
          /\ sFileIndex' = MapDelete(sFileIndex, fileHash)
          /\ sStorageQuota' = S_updateStorageQuota(sFileIndex', sStorageQuota)
          /\ sIngested' = {e \in sIngested : e.hash # fileHash}
          /\ sRet' = SRet("deleteFile", "true", NoBuffer)
  /\ UNCHANGED << sDb, sPc, sUsedIds >>
  /\ UNCHANGED notS

S_setStorageQuota(totalGB) ==
  /\ sStorageQuota' = S_updateStorageQuota(sFileIndex,
        [sStorageQuota EXCEPT !.totalGB = totalGB, !.costPerMonth = totalGB * 1])
  /\ sRet' = SRet("setStorageQuota", "void", NoBuffer)
  /\ UNCHANGED << sDb, sFileIndex, sIdb, sPc, sUsedIds, sIngested >>
  /\ UNCHANGED notS

\* initialize(dbPath): issues indexedDB.open and returns.
S_initialize ==
  /\ sPc = "idle"
  /\ sPc' = "open"
  /\ sRet' = SRet("initialize", "void", NoBuffer)
  /\ UNCHANGED << sDb, sFileIndex, sStorageQuota, sIdb, sUsedIds, sIngested >>
  /\ UNCHANGED notS

\* dbRequest.onsuccess (this.db is set, loadFileIndex issues its getAll), or
\* with openOk = FALSE dbRequest.onerror, which logs.
S_open(openOk) ==
  /\ sPc = "open"
  /\ sPc' = IF openOk THEN "loadFileIndex" ELSE "idle"
  /\ sDb' = (sDb \/ openOk)
  /\ UNCHANGED << sFileIndex, sStorageQuota, sIdb, sUsedIds, sRet, sIngested >>
  /\ UNCHANGED notS

\* request.onsuccess of loadFileIndex
S_loadFileIndex ==
  /\ sPc = "loadFileIndex"
  /\ sPc' = "idle"
  /\ LET keys == SortedKeys(DOMAIN sIdb.metadata)
         files == [i \in 1 .. Len(keys) |-> sIdb.metadata[keys[i]]]
     IN /\ sFileIndex' = SetAll(sFileIndex, files)
        /\ sStorageQuota' = S_updateStorageQuota(sFileIndex', sStorageQuota)
  /\ UNCHANGED << sDb, sIdb, sUsedIds, sRet, sIngested >>
  /\ UNCHANGED notS

\* The page is reloaded.
S_restart ==
  /\ sDb' = FALSE
  /\ sFileIndex' = <<>>
  /\ sStorageQuota' = S_InitialQuota
  /\ sPc' = "idle"
  /\ sRet' = SRet("restart", "void", NoBuffer)
  /\ UNCHANGED << sIdb, sUsedIds, sIngested >>
  /\ UNCHANGED notS

\* The hashes the callers ask for: those of the records and of the entries
\* in IndexedDB, and those of the plain bytes of the files.
S_hashArgs ==
  MapKeys(sFileIndex) \cup DOMAIN sIdb.metadata
    \cup {calculateHash(f.buffer) : f \in SFiles}

SInit ==
  /\ sDb = FALSE
  /\ sFileIndex = <<>>
  /\ sStorageQuota = S_InitialQuota
  /\ sIdb = [files |-> EmptyMap, metadata |-> EmptyMap]
  /\ sPc = "idle"
  /\ sUsedIds = 0
  /\ sRet = SRet("new", "void", NoBuffer)
  /\ sIngested = {}

SNext ==
  \/ \E file \in SFiles, encryptionKey \in EncryptionKeys, salt \in Salts :
       S_addFile(file, "", encryptionKey, salt)
  \/ \E fileHash \in S_hashArgs, encryptionKey \in EncryptionKeys, readOk \in BOOLEAN :
       S_getFile(fileHash, encryptionKey, readOk)
  \/ \E fileHash \in S_hashArgs, txOk \in BOOLEAN : S_deleteFile(fileHash, txOk)
  \/ \E totalGB \in TotalGBChoices : S_setStorageQuota(totalGB)
  \/ S_initialize
  \/ \E openOk \in BOOLEAN : S_open(openOk)
  \/ S_loadFileIndex
  \/ S_restart

\* C12.  In every reachable state the available capacity is
\* max(0, totalGB - usedGB), and so never negative.
C12_AvailableNeverNegative ==
  /\ sStorageQuota.availableBytes >= 0
  /\ sStorageQuota.availableBytes
       = (IF sStorageQuota.totalGB * GiB > sStorageQuota.usedBytes
          THEN sStorageQuota.totalGB * GiB - sStorageQuota.usedBytes ELSE 0)

\* C18.  Encryption round trip: once addFile(b, pw) has returned the record
\* of hash h, a getFile(h, pw) that finds the entry resolves with a file
\* whose bytes are b, of b's length.
C18_EncryptionRoundTrip ==
  [][\A e \in sIngested, readOk \in BOOLEAN :
       (e.key # NoKey /\ S_getFile(e.hash, e.key, readOk) /\ sRet'.value = "file")
       => /\ sRet'.buffer = e.buffer
          /\ ByteLength(sRet'.buffer) = ByteLength(e.buffer)]_vars

\* C19.  Wrong passphrase: a getFile with a passphrase other than the one
\* the record was added with rejects; it never resolves with a file.
C19_WrongPassphraseRejects ==
  [][\A e \in sIngested, wrong \in Passphrases, readOk \in BOOLEAN :
       (e.key # NoKey /\ wrong # e.key /\ sDb
          /\ e.hash \in DOMAIN sIdb.metadata
          /\ S_getFile(e.hash, wrong, readOk))
       => sRet'.value = "reject"]_vars

\* C20.  Content addressing does not depend on encryption: the hash addFile
\* returns is the hash of the bytes of the file, with a passphrase as without,
\* so that identical bytes never have two records.
C20_HashOfPlainBytes ==
  /\ \A e \in sIngested : e.hash = calculateHash(e.buffer)
  /\ \A i, j \in 1 .. Len(sFileIndex) :
       sFileIndex[i].name = sFileIndex[j].name => i = j

\* ========================================================================
\* Part H: the useStorage hook over StorageService
\* ========================================================================
\* useCallback(fn, deps): the callback of the render that last saw its
\* dependencies change.  What that callback reads of the state is what that
\* render had.
useCallback(memoized, fresh, depsChanged) ==
  IF depsChanged THEN fresh ELSE memoized

\* setEncryptionKey(key): the state changes and the hook renders again.
\* uploadFile and downloadFile are useCallback(..., []): no render after the
\* first sees their dependencies change.
H_setEncryptionKey(key) ==
  /\ hEncryptionKey' = key
  /\ hCaptured' = useCallback(hCaptured, key, FALSE)
  /\ UNCHANGED << uvars, pvars, svars, nvars, ivars, avars, fvars >>

\* const key = flag && encryptionKey ? encryptionKey : undefined
H_key(flag) == IF flag /\ hCaptured # NoKey THEN hCaptured ELSE NoKey

\* uploadFile(file, indexed, peerId, encrypt)
H_uploadFile(file, encrypt, salt) ==
  S_addFile(file, "", H_key(encrypt), salt)

\* downloadFile(fileHash, decrypt): a null of getFile is thrown as
\* 'File not found'.
H_downloadFile(fileHash, decrypt, readOk) ==
  /\ sRet' = IF ~sDb \/ ~readOk
                \/ S_getFileResult(sIdb, fileHash, H_key(decrypt)).value = "null"
             THEN SRet("getFile", "reject", NoBuffer)
             ELSE S_getFileResult(sIdb, fileHash, H_key(decrypt))
  /\ UNCHANGED << sDb, sFileIndex, sStorageQuota, sIdb, sPc, sUsedIds, sIngested >>
  /\ UNCHANGED notS

HInit ==
  /\ hEncryptionKey = NoKey
  /\ hCaptured = NoKey

\* What the page does: the hook's operations, and the start of the service.
HNext ==
  \/ \E key \in EncryptionKeys : H_setEncryptionKey(key)
  \/ \E file \in SFiles, encrypt \in BOOLEAN, salt \in Salts :
       H_uploadFile(file, encrypt, salt)
  \/ \E fileHash \in S_hashArgs, decrypt \in BOOLEAN, readOk \in BOOLEAN :
       H_downloadFile(fileHash, decrypt, readOk)
  \/ \E fileHash \in S_hashArgs, txOk \in BOOLEAN : S_deleteFile(fileHash, txOk)
  \/ S_initialize
  \/ \E openOk \in BOOLEAN : S_open(openOk)
  \/ S_loadFileIndex

\* C21.  Upload with encryption enabled: after setEncryptionKey(k) with a
\* non-empty k, the record an uploadFile(file, indexed, peerId, true) stores
\* is encrypted and the bytes in IndexedDB are not the bytes of the file.
C21_EncryptedUpload ==
  [][\A file \in SFiles, salt \in Salts :
       (hEncryptionKey # NoKey /\ H_uploadFile(file, TRUE, salt))
       => \A i \in 1 .. Len(sFileIndex') :
            sFileIndex'[i].id = sUsedIds'
              => /\ sFileIndex'[i].isEncrypted
                 /\ \A id \in DOMAIN sIdb'.files :
                      sIdb'.files[id].data # file.buffer]_vars

\* ========================================================================
\* Part N: P2PNetworkService (electron/main.js)
\* ========================================================================
\* How many heartbeat intervals the clock runs for.
MaxTicks == 4

HEARTBEAT_INTERVAL == 10000
OFFLINE_AFTER == 30000

\* The clock moves in halves of the heartbeat interval.
TimeStep == HEARTBEAT_INTERVAL \div 2

\* The id the service is constructed with: `peer-${Math.random()...}`.
N_PEER_ID == "peer-main"

\* The peerId argument of registerPeer, updatePeerStats and markPeerOnline.
NPeerArgs == {"peer-A", N_PEER_ID}

\* this.peers.get(peerId): 0 when the map has no such key.
N_peerAt(peers, peerId) ==
  IF \E i \in 1 .. Len(peers) : peers[i].peerId = peerId
  THEN CHOOSE i \in 1 .. Len(peers) : peers[i].peerId = peerId
  ELSE 0

\* sendMessageToPeer to every online peer.  failed: the peers for which the
\* emit of 'message-to-peer' throws (a listener of the event threw); the
\* catch marks such a peer offline.
N_sendToOnline(peers, type, failed) ==
  {[type |-> "message-to-peer", peerId |-> peers[i].peerId, message |-> type] :
     i \in {j \in 1 .. Len(peers) : peers[j].isOnline /\ peers[j].peerId \notin failed}}

N_afterSend(peers, failed) ==
  [i \in 1 .. Len(peers) |->
     IF peers[i].isOnline /\ peers[i].peerId \in failed
     THEN [peers[i] EXCEPT !.isOnline = FALSE] ELSE peers[i]]

N_event(type, peerId) == [type |-> type, peerId |-> peerId, message |-> ""]

\* The last lifecycle event of each peer, after a step that emitted the
\* events in emitted.
N_lastEvent(lastEvent, emitted) ==
  LET lifecycle == {e \in emitted :
                      e.type \in {"peer-joined", "peer-offline", "peer-online"}}
  IN [p \in DOMAIN lastEvent \cup {e.peerId : e \in lifecycle} |->
        IF \E e \in lifecycle : e.peerId = p
        THEN (CHOOSE e \in lifecycle : e.peerId = p).type
        ELSE lastEvent[p]]

\* The records broadcastFile is handed: a record as an engine's addFile
\* leaves it (the owner, then the connected peers it was replicated to), or
\* the record object the service holds already.
NOwners == {LOCAL_PEER, "peer-A", N_PEER_ID}
NConnected ==
  { <<>>, << [peerId |-> "peer-A"] >>, << [peerId |-> "peer-B"] >>,
    << [peerId |-> "peer-A"], [peerId |-> "peer-B"] >>,
    << [peerId |-> "peer-B"], [peerId |-> "peer-A"] >> }

N_engineRecords ==
  {[hash |-> calculateHash(SampleBuffers[1]),
    name |-> SampleNames[1],
    replicatedOn |-> P_replicateFileToPeers(<< owner >>, connected)] :
     owner \in NOwners, connected \in NConnected}

N_registerPeer(peerId) ==
  /\ IF peerId = N_PEER_ID
     THEN /\ nEmitted' = {}
          /\ UNCHANGED << nPeers, nLastMarked >>
     ELSE LET peer == [peerId |-> peerId, lastSeen |-> nNow, filesCount |-> 0,
                       storageUsed |-> 0, isOnline |-> TRUE]
          IN /\ nPeers' = PeersSet(nPeers, peer)
             /\ nEmitted' = {N_event("peer-joined", peerId)}
             /\ nLastMarked' = Put(nLastMarked, peerId, nNow)
  /\ UNCHANGED << nFileMetadata, nNow, nNextTick >>
  /\ nLastEvent' = N_lastEvent(nLastEvent, nEmitted')
  /\ UNCHANGED notN

N_broadcastFile(fileMetadata, failed) ==
  /\ nEmitted' = N_sendToOnline(nPeers, "file-upload", failed)
  /\ nPeers' = N_afterSend(nPeers, failed)
  /\ nFileMetadata' = MapSet(nFileMetadata,
       [fileMetadata EXCEPT !.replicatedOn =
          IF \E i \in 1 .. Len(@) : @[i] = N_PEER_ID THEN @ ELSE Append(@, N_PEER_ID)])
  /\ UNCHANGED << nNow, nNextTick, nLastMarked >>
  /\ nLastEvent' = N_lastEvent(nLastEvent, nEmitted')
  /\ UNCHANGED notN

N_broadcastFileDeletion(fileHash, failed) ==
  /\ IF ~MapHas(nFileMetadata, fileHash)
     THEN /\ nEmitted' = {}
          /\ UNCHANGED << nFileMetadata, nPeers >>
     ELSE /\ nEmitted' = N_sendToOnline(nPeers, "file-delete", failed)
          /\ nPeers' = N_afterSend(nPeers, failed)
          /\ nFileMetadata' = MapDelete(nFileMetadata, fileHash)
  /\ UNCHANGED << nNow, nNextTick, nLastMarked >>
  /\ nLastEvent' = N_lastEvent(nLastEvent, nEmitted')
  /\ UNCHANGED notN

N_updatePeerStats(peerId, filesCount, storageUsed) ==
  /\ LET i == N_peerAt(nPeers, peerId)
     IN nPeers' = IF i = 0 THEN nPeers
                  ELSE [nPeers EXCEPT ![i].filesCount = filesCount,
                                      ![i].storageUsed = storageUsed,
                                      ![i].lastSeen = nNow]
  /\ nEmitted' = {}
  /\ UNCHANGED << nFileMetadata, nNow, nNextTick, nLastMarked >>
  /\ nLastEvent' = N_lastEvent(nLastEvent, nEmitted')
  /\ UNCHANGED notN

\* A heartbeat that drops the peers it finds late.
N_markOffline_evict(peers, late) ==
  SelectSeq(peers, LAMBDA p : \A i \in late : peers[i].peerId # p.peerId)

\* peer.isOnline = false for the late peers.
N_markOffline(peers, late) ==
  [i \in 1 .. Len(peers) |->
     IF i \in late THEN [peers[i] EXCEPT !.isOnline = FALSE] ELSE peers[i]]

\* The callback of startHeartbeat's setInterval.
N_heartbeat ==
  /\ nNow = nNextTick
  /\ nNextTick' = nNextTick + HEARTBEAT_INTERVAL
  /\ LET late == {i \in 1 .. Len(nPeers) :
                    nNow - nPeers[i].lastSeen > OFFLINE_AFTER /\ nPeers[i].isOnline}
     IN /\ nPeers' = N_markOffline(nPeers, late)
        /\ nEmitted' = {N_event("peer-offline", nPeers[i].peerId) : i \in late}
  /\ UNCHANGED << nFileMetadata, nNow, nLastMarked >>
  /\ nLastEvent' = N_lastEvent(nLastEvent, nEmitted')
  /\ UNCHANGED notN

N_markPeerOnline(peerId) ==
  /\ LET i == N_peerAt(nPeers, peerId)
     IN IF i = 0
        THEN /\ nEmitted' = {}
             /\ UNCHANGED << nPeers, nLastMarked >>
        ELSE /\ nPeers' = [nPeers EXCEPT ![i].isOnline = TRUE, ![i].lastSeen = nNow]
             /\ nEmitted' = IF ~nPeers[i].isOnline
                            THEN {N_event("peer-online", peerId)} ELSE {}
             /\ nLastMarked' = Put(nLastMarked, peerId, nNow)
  /\ UNCHANGED << nFileMetadata, nNow, nNextTick >>
  /\ nLastEvent' = N_lastEvent(nLastEvent, nEmitted')
  /\ UNCHANGED notN

\* Time passes, up to the next heartbeat at most.
N_advance ==
  /\ nNow + TimeStep <= nNextTick
  /\ nNow + TimeStep <= MaxTicks * HEARTBEAT_INTERVAL
  /\ nNow' = nNow + TimeStep
  /\ nEmitted' = {}
  /\ UNCHANGED << nPeers, nFileMetadata, nNextTick, nLastMarked >>
  /\ nLastEvent' = N_lastEvent(nLastEvent, nEmitted')
  /\ UNCHANGED notN

NInit ==
  /\ nPeers = <<>>
  /\ nFileMetadata = <<>>
  /\ nNow = 0
  /\ nNextTick = HEARTBEAT_INTERVAL
  /\ nEmitted = {}
  /\ nLastMarked = EmptyMap
  /\ nLastEvent = EmptyMap

NNext ==
  \/ \E peerId \in NPeerArgs : N_registerPeer(peerId)
  \/ \E fileMetadata \in
          N_engineRecords \cup {nFileMetadata[i] : i \in 1 .. Len(nFileMetadata)},
        failed \in SUBSET {"peer-A"} :
       N_broadcastFile(fileMetadata, failed)
  \/ \E fileMetadata \in N_engineRecords, failed \in SUBSET {"peer-A"} :
       N_broadcastFileDeletion(fileMetadata.hash, failed)
  \/ \E peerId \in NPeerArgs : N_updatePeerStats(peerId, 1, 4)
  \/ N_heartbeat
  \/ \E peerId \in NPeerArgs : N_markPeerOnline(peerId)
  \/ N_advance

\* C16.  replicatedOn has set semantics: in no record the service holds is a
\* peer id listed twice, whatever was replicated and broadcast, and however
\* often.
C16_ReplicatedOnIsSet ==
  \A i \in 1 .. Len(nFileMetadata) :
    \A peerId \in {nFileMetadata[i].replicatedOn[k] :
                     k \in 1 .. Len(nFileMetadata[i].replicatedOn)} :
      Occurrences(nFileMetadata[i].replicatedOn, peerId) = 1

\* A record owned by a peer that was also among the connected peers has
\* been replicated to two peers and broadcast.
C16_Witness ==
  \E i \in 1 .. Len(nFileMetadata) :
    nFileMetadata[i].replicatedOn = << "peer-A", "peer-B", N_PEER_ID >>

\* C17.  Heartbeat timeout: at a heartbeat, a peer for which neither
\* registerPeer nor markPeerOnline ran in the last 30 seconds is offline
\* afterwards, whatever else was called in between.
C17_HeartbeatTimeout ==
  [][N_heartbeat
       => \A i \in 1 .. Len(nPeers) :
            nNow - nLastMarked[nPeers[i].peerId] > OFFLINE_AFTER
              => ~nPeers'[i].isOnline]_vars

\* The ids of the peers in a table.
PeerIds(peers) == {peers[i].peerId : i \in 1 .. Len(peers)}

C36_EventsAlternate ==
  [][\A e \in nEmitted' :
       /\ e.type = "peer-online" => nLastEvent[e.peerId] = "peer-offline"
       /\ e.type = "peer-offline"
            => nLastEvent[e.peerId] \in {"peer-joined", "peer-online"}]_vars

\* ========================================================================
\* Part I: ImprovedStorageService
\* ========================================================================
LS_BACKUP_LIMIT == 5 * 1024 * 1024

\* What addFile is called with: one sample file, and the empty file.  A
\* blob that localStorage does not hold comes about by lsOutcome.
IFiles == {[name |-> SampleNames[1], buffer |-> SampleBuffers[1]], EmptyFile}
IHashes == {calculateHash(f.buffer) : f \in IFiles \ {EmptyFile}}

\* The peers that register and disconnect.
IRemotePeers == {"peer-A", "peer-B"}

I_updateStorageQuota(index, quota) == P_updateStorageQuota(index, quota)

I_getLocalPeerId(ls) == IF ls.peerId = "" THEN LOCAL_PEER ELSE ls.peerId

\* The files store is keyed by record id, metadata and cache by hash.
I_storeFileInDB(idb, fileId, fileBuffer, metadata) ==
  [files |-> Put(idb.files, fileId, [data |-> fileBuffer, metadata |-> metadata]),
   metadata |-> Put(idb.metadata, metadata.hash, metadata),
   cache |-> Put(idb.cache, metadata.hash, fileBuffer)]

\* The cache entry if the index knows the hash, else the first entry of
\* that hash in the files store; NoBuffer stands for null.
I_getFileFromDB(idb, index, fileHash) ==
  IF fileHash \in DOMAIN idb.cache /\ MapHas(index, fileHash)
  THEN idb.cache[fileHash]
  ELSE IF P_find(idb.files, fileHash) = 0 THEN NoBuffer
  ELSE idb.files[P_find(idb.files, fileHash)].data

\* outcome "filesThrow": String.fromCharCode.apply or the setItem of the
\* blobs throws after the metadata item was written; the catch swallows it.
I_storeFileInLocalStorage(ls, metadata, fileBuffer, outcome) ==
  IF ByteLength(fileBuffer) < LS_BACKUP_LIMIT /\ outcome = "ok"
  THEN [ls EXCEPT !.metadata = Put(ls.metadata, metadata.hash, metadata),
                  !.files = Put(ls.files, metadata.hash, EncodeBase64(fileBuffer))]
  ELSE [ls EXCEPT !.metadata = Put(ls.metadata, metadata.hash, metadata)]

I_getFileFromLocalStorage(ls, fileHash) ==
  IF fileHash \notin DOMAIN ls.metadata THEN NoBuffer
  ELSE IF fileHash \notin DOMAIN ls.files THEN NoBuffer
  ELSE DecodeBase64(ls.files[fileHash])

I_removeFileFromLocalStorage(ls, fileHash) ==
  [ls EXCEPT !.metadata = Remove(ls.metadata, fileHash),
             !.files = Remove(ls.files, fileHash)]

\* A loop whose first failed send ends it.
RECURSIVE I_replicateFileToPeers_abort(_, _, _)
I_replicateFileToPeers_abort(replicatedOn, connectedPeers, failed) ==
  IF connectedPeers = <<>> \/ Head(connectedPeers).peerId \in failed
  THEN replicatedOn
  ELSE I_replicateFileToPeers_abort(
         IF \E i \in 1 .. Len(replicatedOn) :
              replicatedOn[i] = Head(connectedPeers).peerId
         THEN replicatedOn
         ELSE Append(replicatedOn, Head(connectedPeers).peerId),
         Tail(connectedPeers), failed)

\* metadata.replicatedOn after the loop of replicateFileToPeers.  failed:
\* the peers for which sendFileToPeer rejects; the catch inside the loop
\* goes on with the next peer.
RECURSIVE I_replicateFileToPeers(_, _, _)
I_replicateFileToPeers(replicatedOn, connectedPeers, failed) ==
  IF connectedPeers = <<>> THEN replicatedOn
  ELSE I_replicateFileToPeers(
         IF \/ Head(connectedPeers).peerId \in failed
            \/ \E i \in 1 .. Len(replicatedOn) :
                 replicatedOn[i] = Head(connectedPeers).peerId
         THEN replicatedOn
         ELSE Append(replicatedOn, Head(connectedPeers).peerId),
         Tail(connectedPeers), failed)

\* How a call ended.  buffer: the bytes of the File getFile resolved with;
\* failed: the connected peers for which addFile's send was rejected.
IRet(op, hash, value) ==
  [op |-> op, hash |-> hash, value |-> value, buffer |-> NoBuffer, failed |-> {}]

\* validateStoredFiles: the records it leaves in the index.
I_validateStoredFiles(index) ==
  SelectSeq(index, LAMBDA m : ~(~m.isValid \/ m.retryCount >= maxRetries))

\* addFile(file, indexed, peerId); fileId is what uuidv4() returns, idbOk
\* whether the transaction of storeFileInDB completes.
I_addFile(file, peerId, fileId, idbOk, lsOutcome, failed) ==
  /\ iPc = "idle"
  /\ IF ByteLength(file.buffer) = 0
     THEN /\ iRet' = IRet("addFile", EmptyHash, "throw")
          /\ UNCHANGED << iFileIndex, iStorageQuota, iLocalStorage, iIdb, iUsedIds >>
     ELSE
       LET fileHash == calculateHash(file.buffer)
           ls1 == IF peerId = ""
                  THEN [iLocalStorage EXCEPT !.peerId = I_getLocalPeerId(iLocalStorage)]
                  ELSE iLocalStorage
           owner == IF peerId # "" THEN peerId ELSE I_getLocalPeerId(ls1)
           metadata == [id |-> fileId,
                        name |-> file.name,
                        size |-> ByteLength(file.buffer),
                        hash |-> fileHash,
                        peerId |-> owner,
                        replicatedOn |-> << owner >>,
                        isValid |-> TRUE,
                        retryCount |-> 0]
           connected == P_getConnectedPeers(iPeers)
           replicated == [metadata EXCEPT !.replicatedOn =
                            I_replicateFileToPeers(@, connected, failed)]
       IN /\ fileId \in RecordIds \ iUsedIds
          /\ iUsedIds' = iUsedIds \cup {fileId}
          /\ IF iDb /\ ~idbOk
             THEN /\ iLocalStorage' = ls1
                  /\ iRet' = IRet("addFile", fileHash, "throw")
                  /\ UNCHANGED << iFileIndex, iStorageQuota, iIdb >>
             ELSE /\ iIdb' = IF iDb
                             THEN I_storeFileInDB(iIdb, fileId, file.buffer, metadata)
                             ELSE iIdb
                  /\ iLocalStorage' =
                       I_storeFileInLocalStorage(ls1, metadata, file.buffer, lsOutcome)
                  /\ iFileIndex' = MapSet(iFileIndex, replicated)
                  /\ iStorageQuota' = I_updateStorageQuota(iFileIndex', iStorageQuota)
                  /\ iRet' = [IRet("addFile", fileHash, "metadata") EXCEPT
                                !.failed = {connected[i].peerId : i \in 1 .. Len(connected)}
                                             \cap failed]
  /\ UNCHANGED << iDb, iPeers, iPc >>
  /\ UNCHANGED notI

\* A getFile in which a failed read of IndexedDB is not caught.
I_getFileResult_rethrow(db, idb, index, ls, fileHash, readOk) ==
  IF ~MapHas(index, fileHash) \/ (db /\ ~readOk)
  THEN [ret |-> "throw", tier |-> "none", buffer |-> NoBuffer]
  ELSE IF db /\ I_getFileFromDB(idb, index, fileHash) # NoBuffer
  THEN [ret |-> "file", tier |-> "indexedDB",
        buffer |-> I_getFileFromDB(idb, index, fileHash)]
  ELSE IF I_getFileFromLocalStorage(ls, fileHash) # NoBuffer
  THEN [ret |-> "file", tier |-> "localStorage",
        buffer |-> I_getFileFromLocalStorage(ls, fileHash)]
  ELSE [ret |-> "throw", tier |-> "none", buffer |-> NoBuffer]

\* What getFile resolves with, and from which tier.  readOk = FALSE: a
\* request of getFileFromDB errors and its promise rejects.
\* fetchFileFromPeer returns null, so the peers never serve a file.
I_getFileResult(db, idb, index, ls, fileHash, readOk) ==
  IF ~MapHas(index, fileHash)
  THEN [ret |-> "throw", tier |-> "none", buffer |-> NoBuffer]
  ELSE IF db /\ readOk /\ I_getFileFromDB(idb, index, fileHash) # NoBuffer
  THEN [ret |-> "file", tier |-> "indexedDB",
        buffer |-> I_getFileFromDB(idb, index, fileHash)]
  ELSE IF I_getFileFromLocalStorage(ls, fileHash) # NoBuffer
  THEN [ret |-> "file", tier |-> "localStorage",
        buffer |-> I_getFileFromLocalStorage(ls, fileHash)]
  ELSE [ret |-> "throw", tier |-> "none", buffer |-> NoBuffer]

\* getFile(fileHash).  The loop over replicatedOn calls getLocalPeerId,
\* which writes the item local-peer-id if it is missing.
I_getFile(fileHash, readOk) ==
  /\ LET r == I_getFileResult(iDb, iIdb, iFileIndex, iLocalStorage, fileHash, readOk)
     IN /\ iRet' = [IRet("getFile", fileHash,
                         IF r.ret = "file" THEN r.tier ELSE r.ret)
                      EXCEPT !.buffer = r.buffer]
        /\ iLocalStorage' =
             IF r.ret = "throw" /\ MapHas(iFileIndex, fileHash)
             THEN [iLocalStorage EXCEPT !.peerId = I_getLocalPeerId(iLocalStorage)]
             ELSE iLocalStorage
  /\ UNCHANGED << iDb, iFileIndex, iStorageQuota, iPeers, iIdb, iPc, iUsedIds >>
  /\ UNCHANGED notI

\* A deleteFile that works on the index and the backup when the database
\* is not open.
I_deleteFile_noHandle(fileHash, txOk) ==
  /\ iPc = "idle"
  /\ IF iDb /\ ~txOk
     THEN /\ iRet' = IRet("deleteFile", fileHash, "throw")
          /\ UNCHANGED << iFileIndex, iStorageQuota, iLocalStorage, iIdb >>
     ELSE /\ iIdb' = IF iDb
                     THEN [files |-> Remove(iIdb.files, P_find(iIdb.files, fileHash)),
                           metadata |-> Remove(iIdb.metadata, fileHash),
                           cache |-> Remove(iIdb.cache, fileHash)]
                     ELSE iIdb
          /\ iFileIndex' = MapDelete(iFileIndex, fileHash)
          /\ iStorageQuota' = I_updateStorageQuota(iFileIndex', iStorageQuota)
          /\ iLocalStorage' = I_removeFileFromLocalStorage(iLocalStorage, fileHash)
          /\ iRet' = IRet("deleteFile", fileHash, "true")
  /\ UNCHANGED << iDb, iPeers, iPc, iUsedIds >>
  /\ UNCHANGED notI

\* deleteFile(fileHash); txOk = FALSE: the transaction errors, nothing of
\* it is applied and the promise rejects.
I_deleteFile(fileHash, txOk) ==
  /\ iPc = "idle"
  /\ IF ~iDb
     THEN /\ iRet' = IRet("deleteFile", fileHash, "false")
          /\ UNCHANGED << iFileIndex, iStorageQuota, iLocalStorage, iIdb >>
     ELSE IF ~txOk
     THEN /\ iRet' = IRet("deleteFile", fileHash, "throw")
          /\ UNCHANGED << iFileIndex, iStorageQuota, iLocalStorage, iIdb >>
     ELSE /\ iIdb' = [files |-> Remove(iIdb.files, P_find(iIdb.files, fileHash)),
                      metadata |-> Remove(iIdb.metadata, fileHash),
                      cache |-> Remove(iIdb.cache, fileHash)]
          /\ iFileIndex' = MapDelete(iFileIndex, fileHash)
          /\ iStorageQuota' = I_updateStorageQuota(iFileIndex', iStorageQuota)
          /\ iLocalStorage' = I_removeFileFromLocalStorage(iLocalStorage, fileHash)
          /\ iRet' = IRet("deleteFile", fileHash, "true")
  /\ UNCHANGED << iDb, iPeers, iPc, iUsedIds >>
  /\ UNCHANGED notI

I_setStorageQuota(totalGB) ==
  /\ iPc = "idle"
  /\ iStorageQuota' = I_updateStorageQuota(iFileIndex,
        [iStorageQuota EXCEPT !.totalGB = totalGB, !.costPerMonth = totalGB * 1])
  /\ iRet' = IRet("setStorageQuota", EmptyHash, "void")
  /\ UNCHANGED << iDb, iFileIndex, iPeers, iLocalStorage, iIdb, iPc, iUsedIds >>
  /\ UNCHANGED notI

\* The put into the peers store is left out: nothing reads that store.
I_registerPeer(peerId) ==
  /\ iPc = "idle"
  /\ iPeers' = PeersSet(iPeers, [peerId |-> peerId, isConnected |-> TRUE])
  /\ iLocalStorage' = [iLocalStorage EXCEPT !.peers = iPeers']
  /\ iRet' = IRet("registerPeer", EmptyHash, "void")
  /\ UNCHANGED << iDb, iFileIndex, iStorageQuota, iIdb, iPc, iUsedIds >>
  /\ UNCHANGED notI

I_disconnectPeer(peerId) ==
  /\ iPc = "idle"
  /\ IF \E i \in 1 .. Len(iPeers) : iPeers[i].peerId = peerId
     THEN /\ iPeers' = PeersSet(iPeers, [peerId |-> peerId, isConnected |-> FALSE])
          /\ iLocalStorage' = [iLocalStorage EXCEPT !.peers = iPeers']
     ELSE UNCHANGED << iPeers, iLocalStorage >>
  /\ iRet' = IRet("disconnectPeer", EmptyHash, "void")
  /\ UNCHANGED << iDb, iFileIndex, iStorageQuota, iIdb, iPc, iUsedIds >>
  /\ UNCHANGED notI

\* dbRequest.onsuccess of initialize(): loadFileIndex has issued its
\* getAll, loadPeers and validateStoredFiles have run, the promise is
\* resolved.  openOk = FALSE: dbRequest.onerror.
I_initialize(openOk) ==
  /\ iPc = "idle"
  /\ IF openOk
     THEN /\ iDb' = TRUE
          /\ iPeers' = PeersSetAll(iPeers, iLocalStorage.peers)
          /\ iFileIndex' = I_validateStoredFiles(iFileIndex)
          /\ iStorageQuota' = I_updateStorageQuota(iFileIndex', iStorageQuota)
          /\ iPc' = "loadFileIndex"
          /\ iRet' = IRet("initialize", EmptyHash, "db")
     ELSE /\ iRet' = IRet("initialize", EmptyHash, "throw")
          /\ UNCHANGED << iDb, iPeers, iFileIndex, iStorageQuota, iPc >>
  /\ UNCHANGED << iLocalStorage, iIdb, iUsedIds >>
  /\ UNCHANGED notI

\* request.onsuccess of loadFileIndex; loadOk = FALSE: the request errors,
\* for which there is no handler.
I_loadFileIndex(loadOk) ==
  /\ iPc = "loadFileIndex"
  /\ iPc' = "idle"
  /\ IF loadOk
     THEN LET keys == SortedKeys(DOMAIN iIdb.metadata)
              files == [i \in 1 .. Len(keys) |-> iIdb.metadata[keys[i]]]
          IN /\ iFileIndex' = SetAll(iFileIndex, files)
             /\ iStorageQuota' = I_updateStorageQuota(iFileIndex', iStorageQuota)
             /\ iRet' = IRet("loadFileIndex", EmptyHash, "loaded")
     ELSE /\ iRet' = IRet("loadFileIndex", EmptyHash, "error")
          /\ UNCHANGED << iFileIndex, iStorageQuota >>
  /\ UNCHANGED << iDb, iPeers, iLocalStorage, iIdb, iUsedIds >>
  /\ UNCHANGED notI

\* The page is reloaded.
I_restart ==
  /\ iDb' = FALSE
  /\ iFileIndex' = <<>>
  /\ iStorageQuota' = InitialQuota
  /\ iPeers' = <<>>
  /\ iPc' = "idle"
  /\ iRet' = IRet("restart", EmptyHash, "void")
  /\ UNCHANGED << iLocalStorage, iIdb, iUsedIds >>
  /\ UNCHANGED notI

\* The state after construction, over a metadata store that holds stored.
IInitOver(stored) ==
  /\ iDb = FALSE
  /\ iFileIndex = <<>>
  /\ iStorageQuota = InitialQuota
  /\ iPeers = <<>>
  /\ iLocalStorage = [metadata |-> EmptyMap, files |-> EmptyMap, peers |-> <<>>,
                      peerId |-> ""]
  /\ iIdb = [files |-> EmptyMap, metadata |-> stored, cache |-> EmptyMap]
  /\ iPc = "idle"
  /\ iUsedIds = {}
  /\ iRet = IRet("restart", EmptyHash, "void")

IInit == IInitOver(EmptyMap)

\* A record as the metadata store of the database may hold it when the
\* page is opened: the fields isValid and retryCount are stored data.
IStoredRecord(isValid, retryCount) ==
  [id |-> 0,
   name |-> SampleNames[1],
   size |-> ByteLength(SampleBuffers[1]),
   hash |-> calculateHash(SampleBuffers[1]),
   peerId |-> LOCAL_PEER,
   replicatedOn |-> << LOCAL_PEER >>,
   isValid |-> isValid,
   retryCount |-> retryCount]

IStoreContents ==
  {EmptyMap}
    \cup {Put(EmptyMap, IStoredRecord(v, n).hash, IStoredRecord(v, n)) :
            v \in BOOLEAN, n \in {0, maxRetries}}

IInitStored == \E stored \in IStoreContents : IInitOver(stored)

INext ==
  \/ \E file \in IFiles, peerId \in PeerArgs, idbOk \in BOOLEAN,
        lsOutcome \in LsOutcomes, failed \in SUBSET IRemotePeers :
       I_addFile(file, peerId, Cardinality(iUsedIds) + 1, idbOk, lsOutcome, failed)
  \/ \E fileHash \in IHashes, readOk \in BOOLEAN : I_getFile(fileHash, readOk)
  \/ \E fileHash \in IHashes, txOk \in BOOLEAN : I_deleteFile(fileHash, txOk)
  \/ I_setStorageQuota(DEFAULT_TOTAL_GB)
  \/ \E peerId \in IRemotePeers : I_registerPeer(peerId)
  \/ \E peerId \in IRemotePeers : I_disconnectPeer(peerId)
  \/ \E openOk \in BOOLEAN : I_initialize(openOk)
  \/ \E loadOk \in BOOLEAN : I_loadFileIndex(loadOk)
  \/ I_restart

\* C26.  Tier read failures are absorbed: a getFile(h) of an indexed h
\* whose read of IndexedDB fails returns the bytes of h from localStorage
\* if localStorage holds the blob, and a getFile(h) of an indexed h fails
\* only if localStorage does not hold the blob.
C26_ReadFailureAbsorbed ==
  [][\A h \in IHashes, readOk \in BOOLEAN :
       (iRet'.op = "getFile" /\ I_getFile(h, readOk) /\ MapHas(iFileIndex, h))
       => /\ (iDb /\ ~readOk /\ h \in DOMAIN iLocalStorage.files)
               => /\ iRet'.value = "localStorage"
                  /\ calculateHash(iRet'.buffer) = h
          /\ iRet'.value = "throw" => h \notin DOMAIN iLocalStorage.files]_vars

\* getFile was served by localStorage although the database is open and
\* its cache holds the blob: the read of IndexedDB has failed.
C26_Witness ==
  /\ iRet.op = "getFile"
  /\ iRet.value = "localStorage"
  /\ iDb
  /\ MapHas(iFileIndex, iRet.hash)
  /\ iRet.hash \in DOMAIN iIdb.cache

\* The peers of a replicatedOn list.
Replicas(replicatedOn) == {replicatedOn[i] : i \in 1 .. Len(replicatedOn)}

\* C27.  Replication is best-effort: an addFile whose stores succeed
\* returns the record whichever sends fail; afterwards replicatedOn holds
\* every connected peer whose send succeeded, and besides the owner no
\* peer whose send failed and no peer that is not connected.  (The sends
\* that failed are read from the step: iRet'.failed.)
C27_ReplicationBestEffort ==
  [][\A file \in IFiles \ {EmptyFile}, peerId \in PeerArgs, lsOutcome \in LsOutcomes :
       (/\ iRet'.op = "addFile"
        /\ I_addFile(file, peerId, Cardinality(iUsedIds) + 1, TRUE, lsOutcome,
                     iRet'.failed))
       => /\ iRet'.value = "metadata"
          /\ LET r == MapGet(iFileIndex', calculateHash(file.buffer)).replicatedOn
                 connected == {iPeers[i].peerId :
                                 i \in {j \in 1 .. Len(iPeers) : iPeers[j].isConnected}}
             IN /\ connected \ iRet'.failed \subseteq Replicas(r)
                /\ Replicas(r) \ {r[1]} \subseteq connected \ iRet'.failed]_vars

\* addFile has returned the record after the send to a connected peer
\* failed, and a peer that comes later in the table is in replicatedOn.
C27_Witness ==
  /\ iRet.op = "addFile"
  /\ iRet.value = "metadata"
  /\ \E i, j \in 1 .. Len(iPeers) :
       /\ i < j
       /\ iPeers[i].peerId \in iRet.failed
       /\ iPeers[j].peerId \notin iRet.failed
       /\ iPeers[j].peerId \in Replicas(MapGet(iFileIndex, iRet.hash).replicatedOn)

GetFileKeepsIndexImproved ==
  [][\A h \in IHashes, readOk \in BOOLEAN :
       (iRet'.op = "getFile" /\ I_getFile(h, readOk))
       => UNCHANGED << iFileIndex, iStorageQuota, iPeers, iIdb >>]_vars

\* C38.  Delete needs the database, ingest does not (ImprovedStorageService):
\* a deleteFile(h) called while the database handle is not open returns
\* false and leaves the index, the quota and the localStorage backup as
\* they were, while an addFile of a non-empty file in the same condition
\* returns its record and the index holds it afterwards.
C38_DeleteNeedsDatabase ==
  [][/\ \A h \in IHashes, txOk \in BOOLEAN :
          (iRet'.op = "deleteFile" /\ ~iDb /\ I_deleteFile(h, txOk))
          => /\ iRet'.value = "false"
             /\ UNCHANGED << iFileIndex, iStorageQuota, iLocalStorage >>
     /\ \A file \in IFiles \ {EmptyFile}, peerId \in PeerArgs, lsOutcome \in LsOutcomes :
          (/\ iRet'.op = "addFile"
           /\ ~iDb
           /\ I_addFile(file, peerId, Cardinality(iUsedIds) + 1, TRUE, lsOutcome,
                        iRet'.failed))
          => /\ iRet'.value = "metadata"
             /\ MapHas(iFileIndex', calculateHash(file.buffer))]_vars

\* deleteFile has returned false for a record that is in the index and in
\* the localStorage backup while the database is not open.
C38_Witness ==
  /\ iRet.op = "deleteFile"
  /\ iRet.value = "false"
  /\ ~iDb
  /\ MapHas(iFileIndex, iRet.hash)
  /\ iStorageQuota.usedBytes > 0
\* ========================================================================
\* Part A: UltimateStorageService, addFile and deleteFile from await to await
\* ========================================================================
\* How many calls may be in flight at a time.
MaxInFlight == 2

\* What the overlapping calls ingest: two files small enough for
\* localStorage to hold their blobs.
AFiles == {[name |-> SampleNames[i], buffer |-> SampleBuffers[i]] : i \in {1, 3}}
AHashes == {calculateHash(f.buffer) : f \in AFiles}

\* The state a segment of a call reads and writes.
ACur ==
  [db |-> uDb, index |-> uFileIndex, data |-> uFileData, ls |-> uLocalStorage,
   idb |-> uIdb, quota |-> uStorageQuota]

\* A call: its arguments, the uuid it drew, what the durable tiers answer
\* to its writes (idbOk: its IndexedDB transaction completes) and, for a
\* getFile, what the read it is waiting for resolves with.
ACall(kind, file, hash, id, lsOutcome, idbOk) ==
  [kind |-> kind, file |-> file, hash |-> hash, id |-> id,
   lsOutcome |-> lsOutcome, idbOk |-> idbOk, read |-> NoBuffer]

\* The state after the segment of addFile that starts at pc.  IndexedDB
\* runs the readwrite transactions over the same stores in the order in
\* which they were created, so the puts of saveToIndexedDB count from the
\* creation of its transaction.
A_addFile(st, c, pc) ==
  LET ls1 == [st.ls EXCEPT !.peerId = U_getLocalPeerId(st.ls)]
      metadata == U_metadata(c.id, c.file, "", ls1)
      index1 == MapSet(st.index, metadata)
      data1 == Put(st.data, c.hash, c.file.buffer)
      finished == [st EXCEPT !.quota = U_updateStorageQuota(st.index, st.quota)]
  IN IF pc = "arrayBuffer"
     THEN [st EXCEPT !.index = index1, !.data = data1,
                     !.ls = U_saveToLocalStorage(index1, data1, ls1, c.lsOutcome)]
     ELSE IF pc = "saveToLocalStorage"
     THEN IF ~st.db THEN finished
          ELSE IF c.idbOk
          THEN [st EXCEPT !.idb = U_saveToIndexedDB(st.idb, c.hash, c.file.buffer,
                                                    U_metadata(c.id, c.file, "", st.ls))]
          ELSE st
     ELSE IF c.idbOk THEN finished ELSE st

\* The await at which that segment ends; "done" when addFile has returned
\* or thrown.
A_addFile_next(st, c, pc) ==
  IF pc = "arrayBuffer" THEN "saveToLocalStorage"
  ELSE IF pc = "saveToLocalStorage" /\ st.db THEN "saveToIndexedDB"
  ELSE "done"

\* A deleteFile that drops the blob at once and the record only when its
\* tier deletes have returned.
A_deleteFile_lateIndex(st, c, pc) ==
  LET memory == [st EXCEPT !.data = Remove(st.data, c.hash)]
      fromLs(s) == [s EXCEPT !.ls = U_deleteFromLocalStorage(s.ls, c.hash)]
      index1 == MapDelete(st.index, c.hash)
  IN IF pc = "call"
     THEN IF ~MapHas(st.index, c.hash) THEN st
          ELSE IF st.db
          THEN [memory EXCEPT !.idb = U_deleteFromIndexedDB(st.idb, c.hash, c.idbOk)]
          ELSE fromLs(memory)
     ELSE IF pc = "deleteFromIndexedDB" THEN fromLs(st)
     ELSE [st EXCEPT !.index = index1, !.quota = U_updateStorageQuota(index1, st.quota)]

\* The state after the segment of deleteFile that starts at pc.
A_deleteFile(st, c, pc) ==
  LET memory == [st EXCEPT !.index = MapDelete(st.index, c.hash),
                           !.data = Remove(st.data, c.hash)]
      fromLs(s) == [s EXCEPT !.ls = U_deleteFromLocalStorage(s.ls, c.hash)]
  IN IF pc = "call"
     THEN IF ~MapHas(st.index, c.hash) THEN st
          ELSE IF st.db
          THEN [memory EXCEPT !.idb = U_deleteFromIndexedDB(st.idb, c.hash, c.idbOk)]
          ELSE fromLs(memory)
     ELSE IF pc = "deleteFromIndexedDB" THEN fromLs(st)
     ELSE [st EXCEPT !.quota = U_updateStorageQuota(st.index, st.quota)]

A_deleteFile_next(st, c, pc) ==
  IF pc = "call"
  THEN IF ~MapHas(st.index, c.hash) THEN "done"
       ELSE IF st.db THEN "deleteFromIndexedDB" ELSE "deleteFromLocalStorage"
  ELSE IF pc = "deleteFromIndexedDB" THEN "deleteFromLocalStorage"
  ELSE "done"

\* The state after the segment of getFile that starts at pc: the blob
\* cache is filled with what the awaited read has resolved with.
A_getFile(st, c, pc) ==
  IF pc # "call" /\ c.read # NoBuffer
  THEN [st EXCEPT !.data = Put(st.data, c.hash, c.read)]
  ELSE st

\* "done" when getFile has returned or thrown.
A_getFile_next(st, c, pc) ==
  IF pc = "call"
  THEN IF ~MapHas(st.index, c.hash) \/ c.hash \in DOMAIN st.data THEN "done"
       ELSE IF st.db THEN "getFromIndexedDB" ELSE "getFromLocalStorage"
  ELSE IF pc = "getFromIndexedDB" /\ c.read = NoBuffer THEN "getFromLocalStorage"
  ELSE "done"

A_segment(st, c, pc) ==
  IF c.kind = "addFile" THEN A_addFile(st, c, pc)
  ELSE IF c.kind = "deleteFile" THEN A_deleteFile(st, c, pc)
  ELSE A_getFile(st, c, pc)

A_next(st, c, pc) ==
  IF c.kind = "addFile" THEN A_addFile_next(st, c, pc)
  ELSE IF c.kind = "deleteFile" THEN A_deleteFile_next(st, c, pc)
  ELSE A_getFile_next(st, c, pc)

\* The call run from pc to its end with nothing in between.
RECURSIVE A_runFrom(_, _, _)
A_runFrom(st, c, pc) ==
  IF pc = "done" THEN st
  ELSE A_runFrom(A_segment(st, c, pc), c, A_next(st, c, pc))

A_run(st, c) == A_runFrom(st, c, IF c.kind = "addFile" THEN "arrayBuffer" ELSE "call")

A_write(st) ==
  /\ uFileIndex' = st.index
  /\ uFileData' = st.data
  /\ uLocalStorage' = st.ls
  /\ uIdb' = st.idb
  /\ uStorageQuota' = st.quota

\* The call as it waits at the await pc: a getFile has issued its read.
\* The read of IndexedDB is a transaction of its own, which sees the store
\* as the transactions created before it leave it.
A_await(st, c, pc) ==
  IF pc = "getFromIndexedDB"
  THEN [c EXCEPT !.read = U_getFromIndexedDB(st.db, st.idb, c.hash, c.idbOk)]
  ELSE IF pc = "getFromLocalStorage"
  THEN [c EXCEPT !.read = U_getFromLocalStorage(st.ls, c.hash)]
  ELSE c

\* No call is in flight.
ANoRun ==
  [base |-> [db |-> FALSE, index |-> <<>>, data |-> EmptyMap,
             ls |-> [metadata |-> <<>>, files |-> EmptyMap, peerId |-> ""],
             idb |-> [files |-> EmptyMap, metadata |-> EmptyMap, backup |-> EmptyMap],
             quota |-> InitialQuota],
   calls |-> <<>>]

\* A call begins: the calls since the service was last quiet are kept.
A_begin(c) ==
  aRun' = IF aOps = <<>> THEN [base |-> ACur, calls |-> << c >>]
          ELSE [aRun EXCEPT !.calls = Append(@, c)]

\* addFile(file) up to `await file.arrayBuffer()`: the uuid is drawn.
A_addFile_call(file, lsOutcome, idbOk) ==
  /\ uPc = "idle"
  /\ Len(aOps) < MaxInFlight
  /\ uNextId <= MaxIds
  /\ LET c == ACall("addFile", file, calculateHash(file.buffer), uNextId,
                    lsOutcome, idbOk)
     IN /\ aOps' = Append(aOps, [call |-> c, pc |-> "arrayBuffer"])
        /\ A_begin(c)
        /\ aLog' = [aLog EXCEPT !.deleted = @ \ {c.hash}, !.reloaded = @ \ {c.hash}]
  /\ uNextId' = uNextId + 1
  /\ UNCHANGED << uDb, uFileIndex, uFileData, uStorageQuota, uLocalStorage, uIdb,
                  uPc, uRet, uIngested >>
  /\ UNCHANGED notA

\* deleteFile(fileHash) up to its first await, or to its throw.
A_deleteFile_call(fileHash, deleteOk) ==
  /\ uPc = "idle"
  /\ Len(aOps) < MaxInFlight
  /\ LET c == ACall("deleteFile", EmptyFile, fileHash, 0, "ok", deleteOk)
         pc == A_deleteFile_next(ACur, c, "call")
     IN /\ A_write(A_deleteFile(ACur, c, "call"))
        /\ aOps' = IF pc = "done" THEN aOps ELSE Append(aOps, [call |-> c, pc |-> pc])
        /\ IF pc = "done" THEN UNCHANGED aRun ELSE A_begin(c)
        /\ uRet' = IF pc = "done" THEN Ret("throw") ELSE uRet
  /\ aLog' = [aLog EXCEPT !.durable = Remove(@, fileHash)]
  /\ UNCHANGED << uDb, uPc, uNextId, uIngested >>
  /\ UNCHANGED notA

\* getFile(fileHash) up to its first await, or to its return.
A_getFile_call(fileHash, readOk) ==
  /\ uPc = "idle"
  /\ Len(aOps) < MaxInFlight
  /\ LET c == ACall("getFile", EmptyFile, fileHash, 0, "ok", readOk)
         pc == A_getFile_next(ACur, c, "call")
         waiting == A_await(ACur, c, pc)
     IN /\ aOps' = IF pc = "done" THEN aOps
                   ELSE Append(aOps, [call |-> waiting, pc |-> pc])
        /\ IF pc = "done" THEN UNCHANGED aRun ELSE A_begin(waiting)
        /\ uRet' = IF pc # "done" THEN uRet
                   ELSE IF MapHas(uFileIndex, fileHash) THEN Ret("memory")
                   ELSE Ret("null")
  /\ UNCHANGED << uDb, uFileIndex, uFileData, uStorageQuota, uLocalStorage, uIdb,
                  uPc, uNextId, uIngested, aLog >>
  /\ UNCHANGED notA

\* An addFile that returns its record after a durable tier has taken both
\* the record and the blob: its IndexedDB transaction completed, or its
\* saveToLocalStorage wrote both items.
A_accepted(st, c) ==
  /\ ~(st.db /\ ~c.idbOk)
  /\ \/ st.db /\ c.idbOk
     \/ c.lsOutcome = "ok" /\ ByteLength(c.file.buffer) < LS_SIZE_LIMIT

\* The call at position i goes on from its await to the next one.
A_resume(i) ==
  /\ i \in 1 .. Len(aOps)
  /\ LET c == aOps[i].call
         pc == A_next(ACur, c, aOps[i].pc)
         st == A_segment(ACur, c, aOps[i].pc)
         alone == aRun.calls = << c >>
     IN /\ A_write(st)
        /\ aOps' = IF pc = "done"
                   THEN SubSeq(aOps, 1, i - 1) \o SubSeq(aOps, i + 1, Len(aOps))
                   ELSE [aOps EXCEPT ![i] = [call |-> A_await(st, c, pc), pc |-> pc]]
        /\ uRet' = IF pc # "done" THEN uRet
                   ELSE IF c.kind = "deleteFile" THEN Ret("true")
                   ELSE IF c.kind = "getFile"
                   THEN IF c.read = NoBuffer THEN Ret("throw")
                        ELSE IF aOps[i].pc = "getFromIndexedDB" THEN Ret("indexedDB")
                        ELSE Ret("localStorage")
                   ELSE IF uDb /\ ~c.idbOk THEN Ret("throw") ELSE Ret("metadata")
        /\ aLog' = IF pc # "done" \/ ~alone THEN aLog
                   ELSE IF c.kind = "deleteFile"
                   THEN [aLog EXCEPT !.deleted = @ \cup {c.hash}]
                   ELSE IF c.kind = "addFile" /\ A_accepted(ACur, c)
                   THEN [aLog EXCEPT !.durable = Put(@, c.hash, c.file.buffer)]
                   ELSE aLog
        /\ aRun' = IF aOps' = <<>> THEN ANoRun ELSE aRun
  /\ UNCHANGED << uDb, uPc, uNextId, uIngested >>
  /\ UNCHANGED notA

AInit ==
  /\ aOps = <<>>
  /\ aRun = ANoRun
  /\ aLog = [deleted |-> {}, reloaded |-> {}, durable |-> EmptyMap]

\* initialize() is called while no call is in flight.
A_initialize ==
  /\ aOps = <<>>
  /\ U_initializeIndexedDB(TRUE)

\* The page is reloaded with calls in flight or without: the service
\* object is constructed anew and no continuation of the old page runs.
\* The IndexedDB transactions that were created commit.
A_restart ==
  /\ uDb' = FALSE
  /\ uFileIndex' = <<>>
  /\ uFileData' = EmptyMap
  /\ uStorageQuota' = InitialQuota
  /\ uPc' = "idle"
  /\ uRet' = Ret("void")
  /\ aOps' = <<>>
  /\ aRun' = ANoRun
  /\ aLog' = [aLog EXCEPT !.reloaded = aLog.deleted]
  /\ UNCHANGED << uLocalStorage, uIdb, uNextId, uIngested >>
  /\ UNCHANGED notA

\* The search string "".
AQueries == { <<>> }

ANext ==
  \/ \E file \in AFiles, lsOutcome \in LsOutcomes, idbOk \in BOOLEAN :
       A_addFile_call(file, lsOutcome, idbOk)
  \/ \E fileHash \in AHashes, deleteOk \in BOOLEAN : A_deleteFile_call(fileHash, deleteOk)
  \/ \E i \in 1 .. MaxInFlight : A_resume(i)
  \/ A_initialize
  \/ U_loadFromLocalStorage
  \/ U_loadFromIndexedDB("ok")
  \/ U_validateAllFiles({})

\* The calls in flight that have written to the index.
AMutating == {i \in 1 .. Len(aOps) : aOps[i].pc # "arrayBuffer"}

\* C23.  No two mutating operations on one content identifier are in
\* flight at the same time: of the calls suspended at an await after they
\* have written to the index, no two are for the same hash.
C23_OneMutationPerHash ==
  \A i, j \in AMutating : aOps[i].call.hash = aOps[j].call.hash => i = j

\* The records of an index or of a stored metadata array, whatever their order.
RecordSet(index) == {index[i] : i \in 1 .. Len(index)}

SameContent(s, t) ==
  /\ RecordSet(s.index) = RecordSet(t.index)
  /\ s.data = t.data
  /\ RecordSet(s.ls.metadata) = RecordSet(t.ls.metadata)
  /\ s.ls.files = t.ls.files
  /\ s.ls.peerId = t.ls.peerId
  /\ s.idb = t.idb
  /\ s.quota = t.quota

\* C24.  Operations on distinct content identifiers commute: when the
\* second of two overlapping calls on different hashes has completed, the
\* index, the blobs of every tier and the quota are what running the two
\* calls one after the other, in one order or the other, leaves.
C24_DistinctHashesCommute ==
  [][(/\ aOps # <<>>
      /\ aOps' = <<>>
      /\ Len(aRun.calls) = 2
      /\ aRun.calls[1].hash # aRun.calls[2].hash)
     => \/ SameContent(ACur', A_run(A_run(aRun.base, aRun.calls[1]), aRun.calls[2]))
        \/ SameContent(ACur', A_run(A_run(aRun.base, aRun.calls[2]), aRun.calls[1]))]_vars


\* The service with page reloads, reads that fail while it initializes,
\* and getFile and searchFiles among the calls.
RNext ==
  \/ \E file \in AFiles, lsOutcome \in LsOutcomes, idbOk \in BOOLEAN :
       A_addFile_call(file, lsOutcome, idbOk)
  \/ \E fileHash \in AHashes, deleteOk \in BOOLEAN : A_deleteFile_call(fileHash, deleteOk)
  \/ \E fileHash \in AHashes, readOk \in BOOLEAN : A_getFile_call(fileHash, readOk)
  \/ \E i \in 1 .. MaxInFlight : A_resume(i)
  \/ \E query \in AQueries : U_searchFiles(query)
  \/ A_initialize
  \/ U_loadFromLocalStorage
  \/ \E outcome \in LoadOutcomes : U_loadFromIndexedDB(outcome)
  \/ \E failed \in SUBSET (MapKeys(uFileIndex) \ DOMAIN uFileData) :
       U_validateAllFiles(failed)
  \/ A_restart

\* C31.  Once initialize() has completed, and between any two steps of
\* the addFile, getFile, deleteFile and searchFiles calls made after it,
\* suspended calls included, every hash in the index has its blob in the
\* blob cache.
C31_IndexWithinCache ==
  uPc = "idle" => MapKeys(uFileIndex) \subseteq DOMAIN uFileData

\* After an initialize() over stored records, an addFile and a deleteFile
\* are suspended at their awaits, each after its writes to the index, and
\* the index still holds a record.
C31_Witness ==
  /\ uPc = "idle"
  /\ uDb
  /\ uFileIndex # <<>>
  /\ \E i, j \in 1 .. Len(aOps) :
       /\ aOps[i].call.kind = "addFile" /\ aOps[i].pc # "arrayBuffer"
       /\ aOps[j].call.kind = "deleteFile"

\* No call is in flight and no initialize() is pending.
AQuiet == uPc = "idle" /\ aOps = <<>>

\* C33.  No resurrection: a hash whose deleteFile has returned true is not
\* in the index after any later page reload and initialize(), until an
\* addFile of bytes with that hash is called.
C33_NoResurrection ==
  AQuiet => \A h \in aLog.reloaded : ~MapHas(uFileIndex, h)

\* C34.  Durability across restart: a record whose addFile returned after
\* a durable tier had taken both its metadata and its blob, and for which
\* deleteFile was not called since, is in the index after a page reload
\* and initialize(), and getFile returns the bytes that were ingested.
C34_DurableAcrossRestart ==
  (AQuiet /\ uDb)
    => \A h \in DOMAIN aLog.durable : \A readOk \in BOOLEAN :
         /\ MapHas(uFileIndex, h)
         /\ U_read(h, readOk).ret = "file"
         /\ U_read(h, readOk).buffer = aLog.durable[h]

\* The durable tiers hold the record and the blob of hash h.
InLocalStorage(ls, h) == MapHas(ls.metadata, h) /\ h \in DOMAIN ls.files
InIndexedDB(idb, h) == h \in DOMAIN idb.metadata /\ h \in DOMAIN idb.files

\* The tiers of st agree with its index about hash h.
TiersAgree(st, h) ==
  IF MapHas(st.index, h)
  THEN InLocalStorage(st.ls, h) /\ InIndexedDB(st.idb, h)
  ELSE /\ ~MapHas(st.ls.metadata, h) /\ h \notin DOMAIN st.ls.files
       /\ h \notin DOMAIN st.idb.metadata /\ h \notin DOMAIN st.idb.files

\* C35.  Race freedom for one hash: when an addFile and a deleteFile of
\* the same hash have overlapped with the database open and every tier
\* write and delete succeeding, starting from tiers that agreed with the
\* index, the tiers agree with the index once both have completed.
C35_RaceKeepsTiersAgreeing ==
  [][(/\ aOps # <<>>
      /\ aOps' = <<>>
      /\ uDb
      /\ Len(aRun.calls) = 2
      /\ aRun.calls[1].hash = aRun.calls[2].hash
      /\ {aRun.calls[1].kind, aRun.calls[2].kind} = {"addFile", "deleteFile"}
      /\ \A k \in 1 .. 2 : aRun.calls[k].lsOutcome = "ok" /\ aRun.calls[k].idbOk
      /\ TiersAgree(aRun.base, aRun.calls[1].hash))
     => TiersAgree(ACur', aRun.calls[1].hash)]_vars

\* ========================================================================
\* Part F: P2PService
\* ========================================================================
\* The peers whose 'file-added' messages arrive.
FPeerIds == {"peer-A", "peer-B"}

FIdle == [state |-> "idle", hash |-> EmptyHash, peers |-> <<>>, i |-> 0]

\* this.peers.set(data.peerId, ...): the keys in insertion order.
F_peersSet(peers, peerId) ==
  IF \E i \in 1 .. Len(peers) : peers[i] = peerId THEN peers ELSE Append(peers, peerId)

\* handleP2PMessage for a message of type 'file-added'.
F_handleP2PMessage(peerId) ==
  /\ fPeers' = F_peersSet(fPeers, peerId)
  /\ UNCHANGED << fFileStore, fReq, fRet, fSilent >>
  /\ UNCHANGED notF

\* addFile(fileHash, fileData, metadata); publishOk = FALSE: the publish
\* rejects and addFile rethrows, after the store was written.
F_addFile(fileHash, publishOk) ==
  /\ fFileStore' = fFileStore \cup {fileHash}
  /\ fRet' = IF publishOk THEN "success" ELSE "throw"
  /\ UNCHANGED << fPeers, fReq, fSilent >>
  /\ UNCHANGED notF

\* getFile(fileHash) up to its first await: a hit in the file store, an
\* empty peers array, or the request to the first peer.
F_getFile(fileHash) ==
  /\ fReq.state = "idle"
  /\ IF fileHash \in fFileStore
     THEN fRet' = "file" /\ fReq' = fReq
     ELSE IF fPeers = <<>>
     THEN fRet' = "throw" /\ fReq' = fReq
     ELSE /\ fReq' = [state |-> "waiting", hash |-> fileHash, peers |-> fPeers, i |-> 1]
          /\ fRet' = "pending"
  /\ UNCHANGED << fPeers, fFileStore, fSilent >>
  /\ UNCHANGED notF

\* The await of requestFileFromPeer settles: the peer has answered with
\* the file, with a falsy value, or the dial or the stream has failed.
\* Nothing else ends the await: no timeout and no abort signal is passed.
F_requestFileFromPeer(outcome) ==
  /\ fReq.state = "waiting"
  /\ fReq.peers[fReq.i] \notin fSilent
  /\ IF outcome = "file"
     THEN /\ fFileStore' = fFileStore \cup {fReq.hash}
          /\ fRet' = "file"
          /\ fReq' = FIdle
     ELSE /\ fFileStore' = fFileStore
          /\ IF fReq.i < Len(fReq.peers)
             THEN fReq' = [fReq EXCEPT !.i = @ + 1] /\ fRet' = fRet
             ELSE fReq' = FIdle /\ fRet' = "throw"
  /\ UNCHANGED << fPeers, fSilent >>
  /\ UNCHANGED notF

\* A peer stops answering: it accepts the stream and sends nothing.
F_peerSilent(peerId) ==
  /\ peerId \notin fSilent
  /\ fSilent' = fSilent \cup {peerId}
  /\ UNCHANGED << fPeers, fFileStore, fReq, fRet >>
  /\ UNCHANGED notF

FInit ==
  /\ fPeers = <<>>
  /\ fFileStore = {}
  /\ fReq = FIdle
  /\ fRet = "none"
  /\ fSilent = {}

FResponses == {"file", "null", "error"}

FNext ==
  \/ \E peerId \in FPeerIds : F_handleP2PMessage(peerId)
  \/ \E fileHash \in Hashes, publishOk \in BOOLEAN : F_addFile(fileHash, publishOk)
  \/ \E fileHash \in Hashes : F_getFile(fileHash)
  \/ \E outcome \in FResponses : F_requestFileFromPeer(outcome)
  \/ \E peerId \in FPeerIds : F_peerSilent(peerId)

\* C29.  Retrieval fan-out terminates: a getFile that is waiting for a
\* peer's answer completes eventually, with the file or with its error,
\* also when peers have stopped answering.
C29_FanOutTerminates == (fReq.state = "waiting") ~> (fReq.state = "idle")

\* ------------------------------------------------------------------------
\* The services are separate singletons, each over a database of its own;
\* each is explored on its own.
Init == UInit /\ PInit /\ SInit /\ NInit /\ HInit /\ IInit /\ AInit /\ FInit

Next == UNext
NextP == PNext
NextS == SNext
NextN == NNext
NextH == HNext
NextI == INext
NextA == ANext
NextF == FNext
NextR == RNext

\* The engines, with ImprovedStorageService opened over a metadata store
\* that holds records already.
InitStored == UInit /\ PInit /\ SInit /\ NInit /\ HInit /\ IInitStored /\ AInit /\ FInit

Spec == Init /\ [][Next]_vars
SpecP == Init /\ [][NextP]_vars
SpecS == Init /\ [][NextS]_vars
SpecN == Init /\ [][NextN]_vars
SpecH == Init /\ [][NextH]_vars
SpecI == Init /\ [][NextI]_vars
SpecA == Init /\ [][NextA]_vars
SpecF == Init /\ [][NextF]_vars
SpecR == Init /\ [][NextR]_vars

\* Every request to a peer that answers is answered in the end.
SpecFLive == SpecF /\ WF_vars(\E outcome \in FResponses : F_requestFileFromPeer(outcome))
SpecIStored == InitStored /\ [][NextI]_vars
====
